---------------------------- MODULE Spec2Model ----------------------------
(***************************************************************************)
(* Middleware core of the Tradera client: the token-bucket RateLimiter,    *)
(* the Retryer, the TTL Cache and the dispatcher that chains them.         *)
(*                                                                         *)
(* Time is an integer clock `now` counted in the unit of time.Duration.    *)
(* Token counts are fixed-point: one token is TokenUnit sub-units, rate is *)
(* sub-units per clock unit.  Goroutines are callers; a critical section   *)
(* held under a mutex is one atomic step, and a step ends wherever the     *)
(* code releases the lock or blocks in a select.                           *)
(***************************************************************************)
EXTENDS Integers, Sequences, FiniteSets, TLC

\* ---------------------------------------------------------------- bounds
TokenUnit == 2
MaxRate == 2
MaxBucket == 4
MaxTime == 3
MaxGrants == 4
\* time.Second in clock units.
Second == 2

Callers == {"c1", "c2"}

Min(a, b) == IF a < b THEN a ELSE b

\* The value of evt after a step that is no TryAcquire and no Available.
NoEvt == [op |-> "other", ret |-> FALSE]

VARIABLES
  now,          \* the monotonic clock read by time.Now()
  rate,         \* RateLimiter.rate
  bucketSize,   \* RateLimiter.bucketSize
  tokens,       \* RateLimiter.tokens
  lastUpdate,   \* RateLimiter.lastUpdate
  cancelled,    \* per caller: the caller's ctx is done
  wpc,          \* per caller: position in RateLimiter.Wait
  wsel,         \* per caller: the select case that woke the caller
  wtimer,       \* per caller: the instant time.After(waitTime) fires
  wres,         \* per caller: what Wait returned
  evt,          \* the limiter operation the last step performed, with its result
  grantsNow,    \* granted admissions since the clock last advanced
  lastGrant,    \* the clock at the last granted TryAcquire, at construction before
  acqCalls,     \* calls of TryAcquire since the limiter was built, counted up to
                \* one past the whole tokens of the capacity
  cfgIn,        \* the RetryConfig handed to NewRetryer
  config,       \* Retryer.config
  withResult,   \* the call is DoWithResult / executeWithMiddlewareResult
  rpc,          \* position in Retryer.Do
  attempt,      \* Do's loop variable
  lastErr,      \* Do's lastErr
  rsel,         \* the select case that woke Do
  rres,         \* the error Do returned
  rresult,      \* the value DoWithResult returned
  outcomes,     \* what each invocation of the operation returned, in order
  sleeps,       \* backoff sleeps Do has entered
  preCancelled, \* ctx was already done when the call was made
  cancelAt,     \* invocations made when ctx was cancelled in Do's sleep, else -1
  clientCfg,    \* the Config handed to NewClient
  hasLimiter,   \* Client.rateLimiter != nil
  hasRetryer,   \* Client.retryer != nil
  dpc,          \* position in executeWithMiddleware
  dres,         \* the error executeWithMiddleware returned
  defaultTTL,   \* Cache.defaultTTL
  entries,      \* Cache.entries: key -> entry, NoEntry for an absent key
  nsets,        \* calls of SetWithTTL so far
  closed,       \* Cache.stopCleanup is closed
  tickPending,  \* the cleanup ticker has a tick waiting in its channel
  spc,          \* position of the cleanupLoop goroutine
  sweepNow,     \* cleanup's reading of time.Now()
  gpc,          \* position of the caller of Cache.Get
  gkey,         \* the key of the Get
  gentry,       \* the entry the Get read under the read lock
  gcheck,       \* the clock when the Get tested IsExpired
  gret,         \* what the Get returned
  opc,          \* position of the caller of Cache.GetOrSet
  okey,         \* the key of the GetOrSet
  ores,         \* what the GetOrSet returned
  fnLog,        \* GetOrSet's invocations of fn so far: the key and what fn returned
  hasCache,     \* Client.cache != nil
  cpc,          \* position of the caller of PublicClient.GetCategories
  cres,         \* what GetCategories returned
  errIn,        \* the error handed to IsRetryable
  eret,         \* what IsRetryable returned for it, <<>> before the call
  dIn,          \* the attempt handed to calculateDelay and its draw of rand.Float64()
  dOut,         \* what calculateDelay returned for it, <<>> before the call
  closePanic,   \* Cache.Close panicked: close of a closed channel
  mu,           \* Client.mu: the caller holding it, "free" when unlocked
  subClient,    \* per accessor: the Client's field, 0 for nil, else the instance
  created,      \* sub-client instances created so far
  apc,          \* per caller: position in an accessor of Client
  aacc,         \* per caller: the accessor called
  aret,         \* per caller: the instance the accessor returned
  returned,     \* per accessor: the instances its calls have returned
  ncalls,       \* accessor calls made so far
  userAuth,     \* Config.UserID and Config.Token
  upc,          \* position of the caller of an operation that needs user auth
  ures          \* the error that operation returned

limState == <<rate, bucketSize, tokens, lastUpdate, grantsNow, acqCalls, lastGrant>>
waitState == <<wpc, wsel, wtimer, wres>>
retryCfg == <<cfgIn, config, withResult>>
retryState == <<rpc, attempt, lastErr, rsel, rres, rresult, outcomes, sleeps,
                preCancelled, cancelAt>>
dispState == <<clientCfg, hasLimiter, hasRetryer, dpc, dres>>

cacheState == <<defaultTTL, entries, nsets, closed, tickPending, spc, sweepNow>>
getState == <<gpc, gkey, gentry, gcheck, gret>>
gosState == <<opc, okey, ores, fnLog>>
catState == <<hasCache, cpc, cres>>
errState == <<errIn, eret>>
delayState == <<dIn, dOut>>
closeState == <<closePanic>>
accState == <<mu, subClient, created, apc, aacc, aret, returned, ncalls>>
authState == <<userAuth, upc, ures>>
tailState == <<closeState, accState, authState>>
moreState == <<gosState, catState, errState, delayState, tailState>>

vars == <<now, cancelled, evt, limState, waitState, retryCfg, retryState, dispState,
          cacheState, getState, moreState>>

\* ------------------------------------------------------------ RateLimiter

\* NewRateLimiterWithBurst with a bucket that starts empty.
NewRateLimiterWithBurstBad(requestsPerSecond, burstCapacity) ==
  [rate |-> requestsPerSecond, bucketSize |-> burstCapacity,
   tokens |-> 0, lastUpdate |-> now]

\* NewRateLimiterWithBurst: the bucket starts full, lastUpdate is time.Now().
NewRateLimiterWithBurst(requestsPerSecond, burstCapacity) ==
  [rate |-> requestsPerSecond, bucketSize |-> burstCapacity,
   tokens |-> burstCapacity, lastUpdate |-> now]

\* NewRateLimiter: the burst capacity is the rate.  The rate is counted per
\* clock unit and the capacity in tokens, so a rate of r per clock unit is a
\* capacity of r * Second.
NewRateLimiter(requestsPerSecond) ==
  NewRateLimiterWithBurst(requestsPerSecond, requestsPerSecond * Second)

\* refillTokens: tokens += elapsed * rate, capped at bucketSize.
refillTokensBad(tok) == tok + (now - lastUpdate) * rate
refillTokens(tok) ==
  LET elapsed == now - lastUpdate
      t == tok + elapsed * rate
  IN IF t > bucketSize THEN bucketSize ELSE t

\* The test of TryAcquire on the refilled bucket.
TryAcquireGrantBad(tok) == tok > 0
TryAcquireGrant(tok) == tok >= TokenUnit

\* The deduction of TryAcquire.
TryAcquireDeductBad(tok) == tok
TryAcquireDeduct(tok) == tok - TokenUnit

\* TryAcquire as a transition of the limiter, returning `ret`.
TryAcquire(ret) ==
  LET t == refillTokens(tokens)
  IN /\ lastUpdate' = now
     /\ ret = TryAcquireGrant(t)
     /\ tokens' = IF ret THEN TryAcquireDeduct(t) ELSE t
     /\ grantsNow' = IF ret THEN Min(grantsNow + 1, MaxGrants) ELSE grantsNow
     /\ acqCalls' = Min(acqCalls + 1, bucketSize \div TokenUnit + 1)
     /\ lastGrant' = IF ret THEN now ELSE lastGrant

\* timeUntilNextToken: reads tokens without refilling; the float seconds are
\* truncated by the conversion to time.Duration.
timeUntilNextToken ==
  IF tokens >= TokenUnit THEN 0 ELSE (TokenUnit - tokens) \div rate

\* A direct call of TryAcquire by some goroutine.
TryAcquireCall ==
  \E ret \in BOOLEAN :
    /\ TryAcquire(ret)
    /\ evt' = [op |-> "TryAcquire", ret |-> ret]
    /\ UNCHANGED <<now, rate, bucketSize, cancelled, waitState,
                  retryCfg, retryState, dispState,
                 cacheState, getState, moreState>>

\* Available without the refill: the stored count is reported.
AvailableBad ==
  /\ evt' = [op |-> "Available", ret |-> tokens]
  /\ UNCHANGED <<now, limState, cancelled, waitState,
                 retryCfg, retryState, dispState,
                 cacheState, getState, moreState>>

\* A call of Available: refill, then report.
Available ==
  /\ tokens' = refillTokens(tokens)
  /\ lastUpdate' = now
  /\ evt' = [op |-> "Available", ret |-> tokens']
  /\ UNCHANGED <<now, rate, bucketSize, cancelled, waitState, grantsNow, acqCalls, lastGrant,
               retryCfg, retryState, dispState,
                 cacheState, getState, moreState>>

\* Wait is called by caller c.
WaitCall(c) ==
  /\ wpc[c] = "idle"
  /\ wpc' = [wpc EXCEPT ![c] = "try"]
  /\ evt' = NoEvt
  /\ UNCHANGED <<now, limState, cancelled, wsel, wtimer, wres,
                 retryCfg, retryState, dispState,
                 cacheState, getState, moreState>>

\* Wait returning nil whatever its TryAcquire said.
WaitTryBad(c) ==
  /\ wpc[c] = "try"
  /\ \E ret \in BOOLEAN :
       /\ TryAcquire(ret)
       /\ evt' = [op |-> "TryAcquire", ret |-> ret]
       /\ wpc' = [wpc EXCEPT ![c] = "done"]
       /\ wres' = [wres EXCEPT ![c] = "nil"]
  /\ UNCHANGED <<now, rate, bucketSize, cancelled, wsel, wtimer,
                 retryCfg, retryState, dispState,
                 cacheState, getState, moreState>>

\* The head of Wait's loop: TryAcquire, return nil when it is granted.
WaitTry(c) ==
  /\ wpc[c] = "try"
  /\ \E ret \in BOOLEAN :
       /\ TryAcquire(ret)
       /\ evt' = [op |-> "TryAcquire", ret |-> ret]
       /\ wpc' = [wpc EXCEPT ![c] = IF ret THEN "done" ELSE "compute"]
       /\ wres' = [wres EXCEPT ![c] = IF ret THEN "nil" ELSE @]
  /\ UNCHANGED <<now, rate, bucketSize, cancelled, wsel, wtimer,
                 retryCfg, retryState, dispState,
                 cacheState, getState, moreState>>

\* The cases of a select over ctx.Done() and a timer of `delay` that are ready
\* when the select is entered; "none" when the caller blocks.
SelectEntry(isCancelled, delay) ==
  (IF isCancelled THEN {"ctx"} ELSE {}) \cup
  (IF delay = 0 THEN {"timer"} ELSE {}) \cup
  (IF ~isCancelled /\ delay # 0 THEN {"none"} ELSE {})

\* Wait computes the wait time and enters the select.
WaitSelect(c) ==
  /\ wpc[c] = "compute"
  /\ LET waitTime == timeUntilNextToken
     IN /\ wtimer' = [wtimer EXCEPT ![c] = now + waitTime]
        /\ \E s \in SelectEntry(cancelled[c], waitTime) :
             wsel' = [wsel EXCEPT ![c] = s]
  /\ wpc' = [wpc EXCEPT ![c] = "select"]
  /\ evt' = NoEvt
  /\ UNCHANGED <<now, limState, cancelled, wres, retryCfg, retryState, dispState,
                 cacheState, getState, moreState>>

\* The timer of a caller blocked in Wait's select fires.
WaitTimerFire(c) ==
  /\ wpc[c] = "select"
  /\ wsel[c] = "none"
  /\ now >= wtimer[c]
  /\ wsel' = [wsel EXCEPT ![c] = "timer"]
  /\ evt' = NoEvt
  /\ UNCHANGED <<now, limState, cancelled, wpc, wtimer, wres,
                 retryCfg, retryState, dispState,
                 cacheState, getState, moreState>>

\* The caller leaves the select: the ctx case returns ctx.Err(), the timer
\* case goes round the loop.
WaitResume(c) ==
  /\ wpc[c] = "select"
  /\ wsel[c] # "none"
  /\ wpc' = [wpc EXCEPT ![c] = IF wsel[c] = "ctx" THEN "done" ELSE "try"]
  /\ wres' = [wres EXCEPT ![c] = IF wsel[c] = "ctx" THEN "ctxErr" ELSE @]
  /\ wsel' = [wsel EXCEPT ![c] = "none"]
  /\ evt' = NoEvt
  /\ UNCHANGED <<now, limState, cancelled, wtimer,
                 retryCfg, retryState, dispState,
                 cacheState, getState, moreState>>

\* ---------------------------------------------------------------- errors

NilErr == [kind |-> "nil", n |-> 0]
CtxErr == [kind |-> "context.Canceled", n |-> 0]

\* The error the n-th invocation of the operation returned.
OpErr(kind, n) == [kind |-> kind, n |-> n]

\* What one invocation of the operation may return.
OpErrKinds == {"NetworkError", "SOAPFault", "other"}
Outcomes == {"nil"} \cup OpErrKinds

MaxChain == 3

\* Errors as chains, outermost first, each element unwrapping to the next; the
\* empty chain is nil. *NetworkError has Unwrap (its Err may be nil) and so
\* has a wrapper made with fmt.Errorf("%w"); the sentinels, *SOAPFault,
\* *APIError, context.Canceled and any other error end a chain.
ErrWrappers == {"NetworkError", "Wrapped"}
ErrLeaves ==
  {"NetworkError", "ErrRateLimited", "ErrTimeout", "ErrNotFound", "SOAPFault",
   "APIError", "context.Canceled", "other"}
Errs ==
  {<<>>} \cup
  UNION {{w \o <<l>> : w \in [1..n -> ErrWrappers], l \in ErrLeaves} :
           n \in 0..(MaxChain - 1)}

\* errors.As(err, &target) for a target of pointer type kind: some error of
\* the chain has that type.
ErrorsAs(err, kind) == \E i \in 1..Len(err) : err[i] = kind

\* errors.Is(err, sentinel): some error of the chain equals the sentinel; the
\* only Is method in a chain, APIError's, is false for a target that is no
\* *APIError.
ErrorsIs(err, sentinel) == \E i \in 1..Len(err) : err[i] = sentinel

\* The chain of the error an invocation of the operation returned.
ErrOf(kind) == IF kind = "nil" THEN <<>> ELSE <<kind>>

\* IsRetryable.
IsRetryableBad(err) ==
  IF err = <<>> THEN FALSE
  ELSE IF ErrorsAs(err, "NetworkError") THEN TRUE
  ELSE IF ErrorsIs(err, "ErrRateLimited") THEN TRUE
  ELSE IF ErrorsIs(err, "ErrTimeout") THEN TRUE
  ELSE IF ErrorsAs(err, "SOAPFault") THEN FALSE
  ELSE IF ErrorsAs(err, "APIError") THEN FALSE
  ELSE TRUE
IsRetryable(err) ==
  IF err = <<>> THEN FALSE
  ELSE IF ErrorsAs(err, "NetworkError") THEN TRUE
  ELSE IF ErrorsIs(err, "ErrRateLimited") THEN TRUE
  ELSE IF ErrorsIs(err, "ErrTimeout") THEN TRUE
  ELSE IF ErrorsAs(err, "SOAPFault") THEN FALSE
  ELSE IF ErrorsAs(err, "APIError") THEN FALSE
  ELSE FALSE

\* IsRetryable(err) is called.
IsRetryableCall(err) ==
  /\ errIn' = err
  /\ eret' = <<IsRetryable(err)>>
  /\ UNCHANGED <<now, cancelled, evt, limState, waitState, retryCfg, retryState,
                 dispState, cacheState, getState, gosState, catState, delayState, tailState>>

\* ---------------------------------------------------------------- Retryer

\* Floats of the retry configuration are fractions over FDen.
FDen == 2 * 5
DefaultMaxRetries == 3

\* NewRetryer with tests for negative instead of non-positive fields.
NewRetryerBad(c) ==
  [MaxRetries  |-> IF c.MaxRetries < 0 THEN DefaultMaxRetries ELSE c.MaxRetries,
   BaseDelay   |-> IF c.BaseDelay < 0 THEN Second ELSE c.BaseDelay,
   MaxDelay    |-> IF c.MaxDelay < 0 THEN 30 * Second ELSE c.MaxDelay,
   Multiplier  |-> IF c.Multiplier < 0 THEN 2 * FDen ELSE c.Multiplier,
   Jitter      |-> IF c.Jitter < 0 THEN 0
                   ELSE IF c.Jitter > FDen THEN FDen ELSE c.Jitter,
   ShouldRetry |-> c.ShouldRetry]

\* NewRetryer: the defaults replace non-positive fields, Jitter is clamped.
NewRetryer(c) ==
  [MaxRetries  |-> IF c.MaxRetries <= 0 THEN DefaultMaxRetries ELSE c.MaxRetries,
   BaseDelay   |-> IF c.BaseDelay <= 0 THEN Second ELSE c.BaseDelay,
   MaxDelay    |-> IF c.MaxDelay <= 0 THEN 30 * Second ELSE c.MaxDelay,
   Multiplier  |-> IF c.Multiplier <= 0 THEN 2 * FDen ELSE c.Multiplier,
   Jitter      |-> IF c.Jitter < 0 THEN 0
                   ELSE IF c.Jitter > FDen THEN FDen ELSE c.Jitter,
   ShouldRetry |-> c.ShouldRetry]

RECURSIVE Pow(_, _)
Pow(b, e) == IF e = 0 THEN 1 ELSE b * Pow(b, e - 1)

\* calculateDelay without the cap at MaxDelay.
calculateDelayBad(cf, a, rnd) ==
  LET den == Pow(FDen, a) * FDen * FDen
      raw == cf.BaseDelay * Pow(cf.Multiplier, a)
      num == IF cf.Jitter > 0
               THEN raw * (FDen * FDen - cf.Jitter * FDen + rnd * 2 * cf.Jitter)
               ELSE raw * FDen * FDen
  IN num \div den

\* calculateDelay for attempt a and the draw rnd / FDen of rand.Float64():
\* the float delay is num / den, truncated by the conversion to time.Duration.
calculateDelay(cf, a, rnd) ==
  LET den == Pow(FDen, a) * FDen * FDen
      raw == cf.BaseDelay * Pow(cf.Multiplier, a)
      num == IF cf.Jitter > 0
               THEN raw * (FDen * FDen - cf.Jitter * FDen + rnd * 2 * cf.Jitter)
               ELSE raw * FDen * FDen
  IN IF num > cf.MaxDelay * den THEN cf.MaxDelay ELSE num \div den

\* The largest finite float64, at the scale of the model's durations.
FloatMax == 1000

\* float64(BaseDelay) * math.Pow(Multiplier, attempt) as far as it is finite,
\* in whole durations: a value above FloatMax stands for +Inf.
RECURSIVE RawSat(_, _)
RawSat(cf, a) ==
  IF a = 0 THEN cf.BaseDelay
  ELSE LET p == RawSat(cf, a - 1)
       IN IF p > FloatMax THEN p ELSE (p * cf.Multiplier) \div FDen

\* The product has overflowed to +Inf.
RawOverflows(cf, a) == RawSat(cf, a) > FloatMax

\* time.Duration(NaN): the conversion of a float that int64 cannot hold is
\* implementation-dependent; the smallest int64 on amd64, 0 on arm64.
NaNDurations == {-FloatMax, 0}

\* What calculateDelay can return.  With +Inf for the product and a jitter
\* above 0, delay - jitterRange is Inf - Inf = NaN, which passes the test
\* against MaxDelay and is converted; with jitter 0, +Inf is capped.
calculateDelayResults(cf, a, rnd) ==
  IF RawOverflows(cf, a)
    THEN IF cf.Jitter > 0 THEN NaNDurations ELSE {cf.MaxDelay}
    ELSE {calculateDelay(cf, a, rnd)}

\* The draws of rand.Float64(), a value of [0, 1), as numerators over FDen.
RandDraws == {0, FDen \div 2, FDen - 1}

\* r.calculateDelay(attempt) is called, rand.Float64() drawing rnd / FDen.
calculateDelayCall(a, rnd) ==
  /\ dIn' = [attempt |-> a, rnd |-> rnd]
  /\ \E d \in calculateDelayResults(config, a, rnd) : dOut' = <<d>>
  /\ UNCHANGED <<now, cancelled, evt, limState, waitState, retryCfg, retryState,
                 dispState, cacheState, getState, gosState, catState, errState, tailState>>

\* r.config.ShouldRetry(err), for a predicate that is not nil.
ShouldRetry(cf, kind) ==
  CASE cf.ShouldRetry = "IsRetryable" -> IsRetryable(ErrOf(kind))
    [] OTHER -> TRUE

\* Do's test after a failed invocation: return err at once.
DoStopsBad(cf, kind) == FALSE
\* The test with IsRetryable standing in for a predicate that is nil.
DoStopsNilBad(cf, kind) == ~IsRetryable(ErrOf(kind))
DoStops(cf, kind) == cf.ShouldRetry # "nil" /\ ~ShouldRetry(cf, kind)

\* Do's test for the last attempt: break out of the loop, no sleep.
DoLastAttemptBad(a) == a + 1 = config.MaxRetries
\* No attempt taken for the last: Do sleeps after every retryable failure.
DoLastAttemptNeverBad(a) == FALSE
DoLastAttempt(a) == a = config.MaxRetries

\* What Do returns after the loop.
DoExhaustedBad(le) == NilErr
DoExhausted(le) == le

\* What Do returns from the ctx.Done() case of its select.
DoCtxReturnBad(le) == le
DoCtxReturn(le) == CtxErr

\* Do (or DoWithResult) is called with the context of caller c1.
DoEnter ==
  /\ rpc' = "call"
  /\ attempt' = 0
  /\ lastErr' = NilErr
  /\ preCancelled' = cancelled["c1"]

\* One pass of Do's loop body: invoke the operation; return on success, on an
\* error that is not to be retried and after the last attempt; otherwise
\* compute the delay and enter the select.
DoAttempt ==
  /\ rpc = "call"
  /\ attempt <= config.MaxRetries
  /\ \E out \in Outcomes :
       LET n == Len(outcomes) + 1
           err == OpErr(out, n)
       IN /\ outcomes' = Append(outcomes, out)
          /\ rresult' = IF withResult THEN n ELSE rresult
          /\ IF out = "nil"
               THEN /\ rres' = NilErr
                    /\ rpc' = "done"
                    /\ UNCHANGED <<lastErr, rsel, sleeps>>
               ELSE /\ lastErr' = err
                    /\ IF DoStops(config, out)
                         THEN /\ rres' = err
                              /\ rpc' = "done"
                              /\ UNCHANGED <<rsel, sleeps>>
                         ELSE IF DoLastAttempt(attempt)
                           THEN /\ rres' = DoExhausted(err)
                                /\ rpc' = "done"
                                /\ UNCHANGED <<rsel, sleeps>>
                           ELSE /\ \E rnd \in RandDraws :
                                     \E s \in SelectEntry(cancelled["c1"],
                                                calculateDelay(config, attempt, rnd)) :
                                       rsel' = s
                                /\ rpc' = "select"
                                /\ sleeps' = sleeps + 1
                                /\ UNCHANGED rres
  /\ evt' = NoEvt
  /\ UNCHANGED <<now, cancelled, limState, waitState, retryCfg, attempt,
                 preCancelled, cancelAt, dispState,
                 cacheState, getState, moreState>>

\* The backoff timer of a Do blocked in its select fires.
DoTimerFire ==
  /\ rpc = "select"
  /\ rsel = "none"
  /\ rsel' = "timer"
  /\ evt' = NoEvt
  /\ UNCHANGED <<now, cancelled, limState, waitState, retryCfg, rpc, attempt, lastErr,
                 rres, rresult, outcomes, sleeps, preCancelled, cancelAt, dispState,
                 cacheState, getState, moreState>>

\* Do going back to the limiter before its next attempt.
DoResumeBad ==
  /\ rpc = "select"
  /\ rsel # "none"
  /\ IF rsel = "ctx"
       THEN /\ rres' = DoCtxReturn(lastErr)
            /\ rpc' = "done"
            /\ UNCHANGED <<attempt, wpc>>
       ELSE /\ attempt' = attempt + 1
            /\ rpc' = "call"
            /\ wpc' = [wpc EXCEPT !["c1"] = "try"]
            /\ UNCHANGED rres
  /\ rsel' = "none"
  /\ evt' = NoEvt
  /\ UNCHANGED <<now, cancelled, limState, wsel, wtimer, wres, retryCfg, lastErr,
                 rresult, outcomes, sleeps, preCancelled, cancelAt, dispState,
                 cacheState, getState, moreState>>

\* Do leaves the select: the ctx case returns ctx.Err(), the timer case goes
\* to the next attempt.
DoResume ==
  /\ rpc = "select"
  /\ rsel # "none"
  /\ IF rsel = "ctx"
       THEN /\ rres' = DoCtxReturn(lastErr)
            /\ rpc' = "done"
            /\ UNCHANGED attempt
       ELSE /\ attempt' = attempt + 1
            /\ rpc' = "call"
            /\ UNCHANGED rres
  /\ rsel' = "none"
  /\ evt' = NoEvt
  /\ UNCHANGED <<now, cancelled, limState, waitState, retryCfg, lastErr,
                 rresult, outcomes, sleeps, preCancelled, cancelAt, dispState,
                 cacheState, getState, moreState>>

\* A direct call of Do or DoWithResult.
DoCall ==
  /\ rpc = "idle"
  /\ DoEnter
  /\ evt' = NoEvt
  /\ UNCHANGED <<now, cancelled, limState, waitState, retryCfg, rsel, rres,
                 rresult, outcomes, sleeps, cancelAt, dispState,
                 cacheState, getState, moreState>>

\* ------------------------------------------------------------- dispatcher

\* DefaultConfig, with the rate limit set by WithRateLimit.
DefaultConfig(rateLimit) ==
  [RateLimit |-> rateLimit, RetryEnabled |-> FALSE,
   MaxRetries |-> DefaultMaxRetries, RetryBaseDelay |-> Second, CacheTTL |-> 0]

\* Config.WithRetry.
WithRetry(c, maxRetries, baseDelay) ==
  [c EXCEPT !.RetryEnabled = TRUE, !.MaxRetries = maxRetries,
            !.RetryBaseDelay = baseDelay]

\* The RetryConfig NewClient hands to NewRetryer.
ClientRetryConfig(c) ==
  [MaxRetries |-> c.MaxRetries, BaseDelay |-> c.RetryBaseDelay,
   MaxDelay |-> 30 * Second, Multiplier |-> 2 * FDen, Jitter |-> FDen \div 5,
   ShouldRetry |-> "IsRetryable"]

\* Config.WithCache.
WithCache(c, ttl) == [c EXCEPT !.CacheTTL = ttl]

\* NewClient: which middlewares the client gets.
ClientHasLimiter(c) == c.RateLimit > 0
ClientHasRetryer(c) == c.RetryEnabled
ClientHasCacheBad(c) == c.CacheTTL >= 0
ClientHasCache(c) == c.CacheTTL > 0

\* executeWithMiddleware (or executeWithMiddlewareResult) is called by c1:
\* with a limiter it calls Wait, without one it goes on.
ExecCall ==
  /\ dpc = "idle"
  /\ IF hasLimiter
       THEN /\ wpc' = [wpc EXCEPT !["c1"] = "try"]
            /\ dpc' = "wait"
       ELSE /\ dpc' = "admitted"
            /\ UNCHANGED wpc
  /\ preCancelled' = cancelled["c1"]
  /\ evt' = NoEvt
  /\ UNCHANGED <<now, cancelled, limState, wsel, wtimer, wres, retryCfg,
                 rpc, attempt, lastErr, rsel, rres, rresult, outcomes, sleeps,
                 cancelAt, clientCfg, hasLimiter, hasRetryer, dres,
                 cacheState, getState, moreState>>

\* Wait's error ignored: the call goes on whatever Wait returned.
ExecAfterWaitBad ==
  /\ dpc = "wait"
  /\ wpc["c1"] = "done"
  /\ dpc' = "admitted"
  /\ evt' = NoEvt
  /\ UNCHANGED <<now, cancelled, limState, waitState, retryCfg, retryState,
                 clientCfg, hasLimiter, hasRetryer, dres,
                 cacheState, getState, moreState>>

\* Wait has returned: its error is returned, nil lets the call go on.
ExecAfterWait ==
  /\ dpc = "wait"
  /\ wpc["c1"] = "done"
  /\ IF wres["c1"] = "nil"
       THEN /\ dpc' = "admitted"
            /\ UNCHANGED dres
       ELSE /\ dpc' = "done"
            /\ dres' = CtxErr
  /\ evt' = NoEvt
  /\ UNCHANGED <<now, cancelled, limState, waitState, retryCfg, retryState,
                 clientCfg, hasLimiter, hasRetryer,
                 cacheState, getState, moreState>>

\* The admitted call: Do with a retryer, else the operation once.
ExecAdmitted ==
  /\ dpc = "admitted"
  /\ IF hasRetryer
       THEN /\ rpc' = "call"
            /\ attempt' = 0
            /\ lastErr' = NilErr
            /\ dpc' = "retry"
            /\ UNCHANGED <<dres, outcomes, rresult>>
       ELSE /\ \E out \in Outcomes :
                 /\ outcomes' = Append(outcomes, out)
                 /\ dres' = IF out = "nil" THEN NilErr
                            ELSE OpErr(out, Len(outcomes) + 1)
            /\ rresult' = IF withResult THEN Len(outcomes) + 1 ELSE rresult
            /\ dpc' = "done"
            /\ UNCHANGED <<rpc, attempt, lastErr>>
  /\ evt' = NoEvt
  /\ UNCHANGED <<now, cancelled, limState, waitState, retryCfg, rsel, rres,
                 sleeps, preCancelled, cancelAt, clientCfg, hasLimiter, hasRetryer,
                 cacheState, getState, moreState>>

\* Do has returned: the dispatcher returns what it returned.
ExecReturn ==
  /\ dpc = "retry"
  /\ rpc = "done"
  /\ dres' = rres
  /\ dpc' = "done"
  /\ evt' = NoEvt
  /\ UNCHANGED <<now, cancelled, limState, waitState, retryCfg, retryState,
                 clientCfg, hasLimiter, hasRetryer,
                 cacheState, getState, moreState>>

\* ------------------------------------------------------------------ Cache

Keys == {"categories", "k2"}
Vals == {"v1", "v2"}
MaxTTL == 2
\* The TTLs handed to SetWithTTL: expiring at once, and the longest.
TTLs == {0, MaxTTL}
MaxSets == 2

NoEntry == [val |-> "none", exp |-> 0]
NotFound == [val |-> "none", found |-> FALSE]

\* CacheEntry.IsExpired at clock t: time.Now().After(e.Expiration).
IsExpiredBad(e, t) == t < e.exp
IsExpired(e, t) == t > e.exp

\* NewCache: the period of the cleanup ticker.
cleanupIntervalBad == defaultTTL
cleanupInterval == defaultTTL \div 2

\* The cleanup ticker, started when the cache was built at clock 0, fires at
\* clock t.
TickerFires(t) == cleanupInterval > 0 /\ t % cleanupInterval = 0

\* Get, first part: the lookup under the read lock; an absent key returns
\* (nil, false).
GetRead(k) ==
  /\ gpc \in {"idle", "done"}
  /\ gkey' = k
  /\ gentry' = entries[k]
  /\ gcheck' = 0
  /\ IF entries[k] = NoEntry
       THEN /\ gpc' = "done"
            /\ gret' = NotFound
       ELSE /\ gpc' = "check"
            /\ gret' = NotFound
  /\ UNCHANGED <<now, cancelled, evt, limState, waitState, retryCfg, retryState,
                 dispState, cacheState, moreState>>

\* Get, second part: entry.IsExpired() outside any lock; a fresh entry returns
\* (entry.Value, true).
GetCheck ==
  /\ gpc = "check"
  /\ gcheck' = now
  /\ IF IsExpired(gentry, now)
       THEN /\ gpc' = "delete"
            /\ UNCHANGED gret
       ELSE /\ gpc' = "done"
            /\ gret' = [val |-> gentry.val, found |-> TRUE]
  /\ UNCHANGED <<now, cancelled, evt, limState, waitState, retryCfg, retryState,
                 dispState, cacheState, gkey, gentry, moreState>>

\* Get's lazy deletion left out: not-found is returned and the expired entry
\* stays in the map.
GetDeleteBad ==
  /\ gpc = "delete"
  /\ gpc' = "done"
  /\ gret' = NotFound
  /\ UNCHANGED <<now, cancelled, evt, limState, waitState, retryCfg, retryState,
                 dispState, cacheState, gkey, gentry, gcheck, moreState>>

\* Get, third part: the lazy deletion c.Delete(key), then (nil, false).
GetDelete ==
  /\ gpc = "delete"
  /\ entries' = [entries EXCEPT ![gkey] = NoEntry]
  /\ gpc' = "done"
  /\ gret' = NotFound
  /\ UNCHANGED <<now, cancelled, evt, limState, waitState, retryCfg, retryState,
                 dispState, defaultTTL, nsets, closed, tickPending, spc, sweepNow,
                 gkey, gentry, gcheck, moreState>>

\* Size counting only the entries that have not expired.
SizeBad == Cardinality({k \in Keys : entries[k] # NoEntry /\ ~IsExpired(entries[k], now)})
\* Size: len(c.entries), expired entries included.
Size == Cardinality({k \in Keys : entries[k] # NoEntry})

\* Cache.Keys: every key of c.entries, in no particular order.
CacheKeys == {k \in Keys : entries[k] # NoEntry}

\* SetWithTTL's critical section: the map after c.entries[key] = CacheEntry{
\* value, time.Now().Add(ttl)}.
StoreEntryBad(k, v, ttl) == [entries EXCEPT ![k] = [val |-> v, exp |-> now]]
StoreEntry(k, v, ttl) == [entries EXCEPT ![k] = [val |-> v, exp |-> now + ttl]]

\* SetWithTTL that keeps an entry already in the map.
SetWithTTLBad(k, v, ttl) ==
  /\ nsets < MaxSets
  /\ nsets' = nsets + 1
  /\ entries' = IF entries[k] = NoEntry THEN StoreEntry(k, v, ttl) ELSE entries
  /\ UNCHANGED <<now, cancelled, evt, limState, waitState, retryCfg, retryState,
                 dispState, defaultTTL, closed, tickPending, spc, sweepNow, getState, moreState>>

\* SetWithTTL: the entry expires at time.Now().Add(ttl).
SetWithTTL(k, v, ttl) ==
  /\ nsets < MaxSets
  /\ nsets' = nsets + 1
  /\ entries' = StoreEntry(k, v, ttl)
  /\ UNCHANGED <<now, cancelled, evt, limState, waitState, retryCfg, retryState,
                 dispState, defaultTTL, closed, tickPending, spc, sweepNow, getState, moreState>>

\* Set: SetWithTTL with the default TTL.
Set(k, v) == SetWithTTL(k, v, defaultTTL)

\* Delete.
Delete(k) ==
  /\ entries' = [entries EXCEPT ![k] = NoEntry]
  /\ UNCHANGED <<now, cancelled, evt, limState, waitState, retryCfg, retryState,
                 dispState, defaultTTL, nsets, closed, tickPending, spc, sweepNow,
                 getState, moreState>>

\* Clear.
Clear ==
  /\ entries' = [k \in Keys |-> NoEntry]
  /\ UNCHANGED <<now, cancelled, evt, limState, waitState, retryCfg, retryState,
                 dispState, defaultTTL, nsets, closed, tickPending, spc, sweepNow,
                 getState, moreState>>

\* cleanupLoop's first statement: time.NewTicker(c.cleanupInterval), which
\* panics on a non-positive interval.
CleanupStart ==
  /\ spc = "start"
  /\ spc' = IF cleanupInterval > 0 THEN "loop" ELSE "panic"
  /\ UNCHANGED <<now, cancelled, evt, limState, waitState, retryCfg, retryState,
                 dispState, defaultTTL, entries, nsets, closed, tickPending, sweepNow,
                 getState, moreState>>

\* cleanupLoop receives a tick and calls cleanup, which reads the clock
\* before it takes the lock.
CleanupTick ==
  /\ spc = "loop"
  /\ tickPending
  /\ tickPending' = FALSE
  /\ sweepNow' = now
  /\ spc' = "sweep"
  /\ UNCHANGED <<now, cancelled, evt, limState, waitState, retryCfg, retryState,
                 dispState, defaultTTL, entries, nsets, closed, getState, moreState>>

\* cleanup, under the lock: every entry expired at its reading of the clock
\* is deleted.
CleanupSweep ==
  /\ spc = "sweep"
  /\ entries' = [k \in Keys |->
                   IF entries[k] # NoEntry /\ sweepNow > entries[k].exp
                     THEN NoEntry ELSE entries[k]]
  /\ spc' = "loop"
  /\ sweepNow' = 0
  /\ UNCHANGED <<now, cancelled, evt, limState, waitState, retryCfg, retryState,
                 dispState, defaultTTL, nsets, closed, tickPending, getState, moreState>>

\* cleanupLoop that does not listen to stopCleanup.
CleanupStopBad ==
  /\ spc = "loop"
  /\ closed
  /\ UNCHANGED vars

\* cleanupLoop receives from the closed stopCleanup and returns.
CleanupStop ==
  /\ spc = "loop"
  /\ closed
  /\ spc' = "stopped"
  /\ UNCHANGED <<now, cancelled, evt, limState, waitState, retryCfg, retryState,
                 dispState, defaultTTL, entries, nsets, closed, tickPending, sweepNow,
                 getState, moreState>>

\* Close: close(c.stopCleanup).
Close ==
  /\ ~closed
  /\ closed' = TRUE
  /\ UNCHANGED <<now, cancelled, evt, limState, waitState, retryCfg, retryState,
                 dispState, defaultTTL, entries, nsets, tickPending, spc, sweepNow,
                 getState, moreState>>

\* Close on a cache that is already closed: close(c.stopCleanup) panics.
CloseAgain ==
  /\ closed
  /\ closePanic' = TRUE
  /\ UNCHANGED <<now, cancelled, evt, limState, waitState, retryCfg, retryState,
                 dispState, cacheState, getState,
                 gosState, catState, errState, delayState, accState, authState>>

\* ----------------------------------------------- Client's sub-client accessors

Accessors == {"Search", "Public", "Listing", "Restricted", "Order", "Buyer"}
MaxAccCalls == 3

\* An accessor is called by caller c.
AccCall(c, a) ==
  /\ apc[c] \in {"idle", "done"}
  /\ ncalls < MaxAccCalls
  /\ ncalls' = ncalls + 1
  /\ apc' = [apc EXCEPT ![c] = "lock"]
  /\ aacc' = [aacc EXCEPT ![c] = a]
  /\ UNCHANGED <<now, cancelled, evt, limState, waitState, retryCfg, retryState,
                 dispState, cacheState, getState,
                 gosState, catState, errState, delayState, closeState, authState,
                 mu, subClient, created, aret, returned>>

\* The accessor entered without the mutex.
AccLockBad(c) ==
  /\ apc[c] = "lock"
  /\ mu' = c
  /\ apc' = [apc EXCEPT ![c] = "check"]
  /\ UNCHANGED <<now, cancelled, evt, limState, waitState, retryCfg, retryState,
                 dispState, cacheState, getState,
                 gosState, catState, errState, delayState, closeState, authState,
                 subClient, created, aacc, aret, returned, ncalls>>

\* c.mu.Lock(): the caller goes on when the mutex is free.
AccLock(c) ==
  /\ apc[c] = "lock"
  /\ mu = "free"
  /\ mu' = c
  /\ apc' = [apc EXCEPT ![c] = "check"]
  /\ UNCHANGED <<now, cancelled, evt, limState, waitState, retryCfg, retryState,
                 dispState, cacheState, getState,
                 gosState, catState, errState, delayState, closeState, authState,
                 subClient, created, aacc, aret, returned, ncalls>>

\* The test of the field: a field that is set is returned, and the deferred
\* Unlock runs.
AccCheck(c) ==
  /\ apc[c] = "check"
  /\ IF subClient[aacc[c]] = 0
       THEN /\ apc' = [apc EXCEPT ![c] = "create"]
            /\ UNCHANGED <<mu, aret, returned>>
       ELSE /\ apc' = [apc EXCEPT ![c] = "done"]
            /\ aret' = [aret EXCEPT ![c] = subClient[aacc[c]]]
            /\ returned' = [returned EXCEPT ![aacc[c]] = @ \cup {subClient[aacc[c]]}]
            /\ mu' = "free"
  /\ UNCHANGED <<now, cancelled, evt, limState, waitState, retryCfg, retryState,
                 dispState, cacheState, getState,
                 gosState, catState, errState, delayState, closeState, authState,
                 subClient, created, aacc, ncalls>>

\* The field was nil: a new sub-client is stored in it and returned, and the
\* deferred Unlock runs.
AccCreate(c) ==
  /\ apc[c] = "create"
  /\ created' = created + 1
  /\ subClient' = [subClient EXCEPT ![aacc[c]] = created + 1]
  /\ aret' = [aret EXCEPT ![c] = created + 1]
  /\ returned' = [returned EXCEPT ![aacc[c]] = @ \cup {created + 1}]
  /\ apc' = [apc EXCEPT ![c] = "done"]
  /\ mu' = "free"
  /\ UNCHANGED <<now, cancelled, evt, limState, waitState, retryCfg, retryState,
                 dispState, cacheState, getState,
                 gosState, catState, errState, delayState, closeState, authState,
                 aacc, ncalls>>

\* ------------------------------- operations that need user authentication

ErrAuthRequired == [kind |-> "ErrAuthRequired", n |-> 0]

\* Config.HasUserAuth with the token not looked at.
HasUserAuthBad(c) == c.UserID > 0
\* Config.HasUserAuth.
HasUserAuth(c) == c.UserID > 0 /\ c.Token # ""

\* RequireUserAuth.
RequireUserAuth(c) == IF ~HasUserAuth(c) THEN ErrAuthRequired ELSE NilErr

\* An operation of the Restricted, Order or Buyer client is called by c1:
\* RequireUserAuth first, its error returned at once.
AuthOpCall ==
  /\ upc = "idle"
  /\ IF RequireUserAuth(userAuth) # NilErr
       THEN /\ upc' = "done"
            /\ ures' = RequireUserAuth(userAuth)
       ELSE /\ upc' = "exec"
            /\ UNCHANGED ures
  /\ UNCHANGED <<now, cancelled, evt, limState, waitState, retryCfg, retryState,
                 dispState, cacheState, getState,
                 gosState, catState, errState, delayState, closeState, accState,
                 userAuth>>

\* The dispatcher has returned: the operation returns its error.
AuthOpReturn ==
  /\ upc = "exec"
  /\ dpc = "done"
  /\ upc' = "done"
  /\ ures' = dres
  /\ UNCHANGED <<now, cancelled, evt, limState, waitState, retryCfg, retryState,
                 dispState, cacheState, getState,
                 gosState, catState, errState, delayState, closeState, accState,
                 userAuth>>

\* -------------------------------------------- PublicClient.GetCategories

\* The hit ignored: GetCategories goes on to the remote call whatever Get
\* returned.
GetCategoriesAfterGetBad ==
  /\ cpc = "get"
  /\ gpc = "done"
  /\ cpc' = "exec"
  /\ UNCHANGED <<now, cancelled, evt, limState, waitState, retryCfg, retryState,
                 dispState, cacheState, getState, gosState, hasCache, cres,
                 errState, delayState, tailState>>

\* GetCategories is called by c1: with a cache it starts with
\* cache.Get("categories"), without one it goes to the remote call.
GetCategoriesCall ==
  /\ cpc = "idle"
  /\ cpc' = IF hasCache THEN "get" ELSE "exec"
  /\ UNCHANGED <<now, cancelled, evt, limState, waitState, retryCfg, retryState,
                 dispState, cacheState, getState, gosState, hasCache, cres,
                 errState, delayState, tailState>>

\* The Get has returned: a found value is returned, otherwise the call goes
\* on to executeWithMiddlewareResult.
GetCategoriesAfterGet ==
  /\ cpc = "get"
  /\ gpc = "done"
  /\ IF gret.found
       THEN /\ cpc' = "done"
            /\ cres' = [val |-> gret.val, err |-> NilErr]
       ELSE /\ cpc' = "exec"
            /\ UNCHANGED cres
  /\ UNCHANGED <<now, cancelled, evt, limState, waitState, retryCfg, retryState,
                 dispState, cacheState, getState, gosState, hasCache, errState, delayState, tailState>>

\* executeWithMiddlewareResult has returned: its error is returned; its
\* result is converted, stored with cache.Set if there is a cache, and
\* returned.
GetCategoriesAfterExec ==
  /\ cpc = "exec"
  /\ dpc = "done"
  /\ cpc' = "done"
  /\ IF dres # NilErr
       THEN /\ cres' = [val |-> "none", err |-> dres]
            /\ UNCHANGED entries
       ELSE \E v \in Vals :
              /\ cres' = [val |-> v, err |-> NilErr]
              /\ entries' = IF hasCache THEN StoreEntry("categories", v, defaultTTL)
                                        ELSE entries
  /\ UNCHANGED <<now, cancelled, evt, limState, waitState, retryCfg, retryState,
                 dispState, defaultTTL, nsets, closed, tickPending, spc, sweepNow,
                 getState, gosState, hasCache, errState, delayState, tailState>>

\* -------------------------------------------------------- Cache.GetOrSet

MaxFnCalls == 2

\* What fn may return: a value, or an error with no value.
FnOutcomes == Vals \cup {"error"}

NoResult == [val |-> "none", err |-> "nil", calls |-> 0]

\* GetOrSet's test of fn's result: only a result without error goes on to
\* c.Set.
GetOrSetStoresBad(out) == TRUE
GetOrSetStores(out) == out # "error"

\* GetOrSet(k, fn) is called; it starts with c.Get(key).
GetOrSetCall(k) ==
  /\ opc \in {"idle", "done"}
  /\ Len(fnLog) < MaxFnCalls
  /\ opc' = "get"
  /\ okey' = k
  /\ ores' = NoResult
  /\ gpc' = "idle"
  /\ gkey' = k
  /\ gentry' = NoEntry
  /\ gcheck' = 0
  /\ gret' = NotFound
  /\ UNCHANGED <<now, cancelled, evt, limState, waitState, retryCfg, retryState,
                 dispState, cacheState, fnLog, catState, errState, delayState, tailState>>

\* GetOrSet's Get has returned: a found value is returned with a nil error,
\* otherwise the call goes on to fn.
GetOrSetAfterGet ==
  /\ opc = "get"
  /\ gpc = "done"
  /\ IF gret.found
       THEN /\ opc' = "done"
            /\ ores' = [ores EXCEPT !.val = gret.val, !.err = "nil"]
       ELSE /\ opc' = "fn"
            /\ UNCHANGED ores
  /\ UNCHANGED <<now, cancelled, evt, limState, waitState, retryCfg, retryState,
                 dispState, cacheState, getState, okey, fnLog, catState, errState, delayState, tailState>>

\* GetOrSet invokes fn: an error is returned at once, a value goes on to
\* c.Set.
GetOrSetFn ==
  /\ opc = "fn"
  /\ \E out \in FnOutcomes :
       /\ fnLog' = Append(fnLog, [key |-> okey, out |-> out])
       /\ IF GetOrSetStores(out)
            THEN /\ opc' = "set"
                 /\ ores' = [ores EXCEPT !.val = IF out = "error" THEN "none" ELSE out,
                                         !.calls = @ + 1]
            ELSE /\ opc' = "done"
                 /\ ores' = [ores EXCEPT !.val = "none", !.err = "error",
                                         !.calls = @ + 1]
  /\ UNCHANGED <<now, cancelled, evt, limState, waitState, retryCfg, retryState,
                 dispState, cacheState, getState, okey, catState, errState, delayState, tailState>>

\* GetOrSet stores fn's value with c.Set(key, value) and returns it.
GetOrSetStore ==
  /\ opc = "set"
  /\ entries' = StoreEntry(okey, ores.val, defaultTTL)
  /\ opc' = "done"
  /\ UNCHANGED <<now, cancelled, evt, limState, waitState, retryCfg, retryState,
                 dispState, defaultTTL, nsets, closed, tickPending, spc, sweepNow,
                 getState, okey, ores, fnLog, catState, errState, delayState, tailState>>

\* ---------------------------------------------------------------- context

\* The context of caller c is cancelled; closing ctx.Done() wakes a caller
\* that is blocked in a select (Wait's, or Do's for c1) with the ctx case.
Cancel(c) ==
  /\ ~cancelled[c]
  /\ cancelled' = [cancelled EXCEPT ![c] = TRUE]
  /\ wsel' = [wsel EXCEPT ![c] =
                IF wpc[c] = "select" /\ @ = "none" THEN "ctx" ELSE @]
  /\ IF c = "c1" /\ rpc = "select" /\ rsel = "none"
       THEN /\ rsel' = "ctx"
            /\ cancelAt' = Len(outcomes)
       ELSE UNCHANGED <<rsel, cancelAt>>
  /\ evt' = NoEvt
  /\ UNCHANGED <<now, limState, wpc, wtimer, wres, retryCfg, rpc, attempt, lastErr,
                 rres, rresult, outcomes, sleeps, preCancelled, dispState,
                 cacheState, getState, moreState>>

\* Time passes.
Tick ==
  /\ now < MaxTime
  /\ now' = now + 1
  /\ grantsNow' = 0
  /\ tickPending' = (tickPending \/ TickerFires(now + 1))
  /\ evt' = NoEvt
  /\ UNCHANGED <<rate, bucketSize, tokens, lastUpdate, acqCalls, lastGrant, cancelled,
                 waitState,
                 retryCfg, retryState, dispState,
                 defaultTTL, entries, nsets, closed, spc, sweepNow, getState, moreState>>

\* Time passes for a cache whose cleanup goroutine is not starved: while the
\* cache is open the goroutine has taken the tick from ticker.C and finished
\* cleanup before the clock moves on.
TickPrompt ==
  /\ closed \/ (~tickPending /\ spc = "loop")
  /\ Tick

\* ---------------------------------------------------------- initial states

NoRetryConfig ==
  [MaxRetries |-> 0, BaseDelay |-> 0, MaxDelay |-> 0, Multiplier |-> 0,
   Jitter |-> 0, ShouldRetry |-> "nil"]

NoClientConfig ==
  [RateLimit |-> 0, RetryEnabled |-> FALSE, MaxRetries |-> 0, RetryBaseDelay |-> 0,
   CacheTTL |-> 0]

\* No limiter has been built.
LimiterUnset ==
  /\ rate = 0
  /\ bucketSize = 0
  /\ tokens = 0
  /\ lastUpdate = 0

\* A limiter built by NewRateLimiterWithBurst(r, b).
LimiterBuilt(r, b) ==
  LET l == NewRateLimiterWithBurst(r, b)
  IN /\ rate = l.rate
     /\ bucketSize = l.bucketSize
     /\ tokens = l.tokens
     /\ lastUpdate = l.lastUpdate

\* No caller has called anything and no context is cancelled.
CallersIdle ==
  /\ now = 0
  /\ cancelled = [c \in Callers |-> FALSE]
  /\ wpc = [c \in Callers |-> "idle"]
  /\ wsel = [c \in Callers |-> "none"]
  /\ wtimer = [c \in Callers |-> 0]
  /\ wres = [c \in Callers |-> "none"]
  /\ evt = NoEvt
  /\ grantsNow = 0
  /\ acqCalls = 0
  /\ lastGrant = 0

\* Do has not been called.
RetryIdle ==
  /\ rpc = "idle"
  /\ attempt = 0
  /\ lastErr = NilErr
  /\ rsel = "none"
  /\ rres = NilErr
  /\ rresult = 0
  /\ outcomes = <<>>
  /\ sleeps = 0
  /\ preCancelled = FALSE
  /\ cancelAt = -1

\* No retryer has been built.
RetryUnset ==
  /\ cfgIn = NoRetryConfig
  /\ config = NoRetryConfig

\* No client has been built.
DispatchUnset ==
  /\ clientCfg = NoClientConfig
  /\ hasLimiter = FALSE
  /\ hasRetryer = FALSE
  /\ dpc = "idle"
  /\ dres = NilErr

\* No cache has been built.
CacheUnset ==
  /\ defaultTTL = 0
  /\ entries = [k \in Keys |-> NoEntry]
  /\ nsets = 0
  /\ closed = FALSE
  /\ tickPending = FALSE
  /\ spc = "none"
  /\ sweepNow = 0

\* A cache built by NewCache(ttl).
CacheBuilt(ttl) ==
  /\ defaultTTL = ttl
  /\ entries = [k \in Keys |-> NoEntry]
  /\ nsets = 0
  /\ closed = FALSE
  /\ tickPending = FALSE
  /\ spc = "loop"
  /\ sweepNow = 0

\* No caller is in Get.
GetIdle ==
  /\ gpc = "idle"
  /\ gkey = "categories"
  /\ gentry = NoEntry
  /\ gcheck = 0
  /\ gret = NotFound

\* No caller is in GetOrSet.
GosIdle ==
  /\ opc = "idle"
  /\ okey = "categories"
  /\ ores = NoResult
  /\ fnLog = <<>>

\* No client with a cache has been built and no caller is in GetCategories.
CatIdle ==
  /\ hasCache = FALSE
  /\ cpc = "idle"
  /\ cres = [val |-> "none", err |-> NilErr]

\* IsRetryable has not been called.
ErrIdle ==
  /\ errIn = <<>>
  /\ eret = <<>>

\* calculateDelay has not been called on its own.
DelayIdle ==
  /\ dIn = [attempt |-> 0, rnd |-> 0]
  /\ dOut = <<>>

\* Close has not panicked.
CloseIdle == closePanic = FALSE

\* No user authentication configured, no authenticated operation called.
AuthIdle ==
  /\ userAuth = [UserID |-> 0, Token |-> ""]
  /\ upc = "idle"
  /\ ures = NilErr

\* A Client as NewClient leaves it: every sub-client field nil, the mutex
\* unlocked, no accessor called.
AccIdle ==
  /\ mu = "free"
  /\ subClient = [a \in Accessors |-> 0]
  /\ created = 0
  /\ apc = [c \in Callers |-> "idle"]
  /\ aacc = [c \in Callers |-> "Search"]
  /\ aret = [c \in Callers |-> 0]
  /\ returned = [a \in Accessors |-> {}]
  /\ ncalls = 0

\* ------------------------------------------------------- the limiter alone

InitLimiter ==
  /\ CallersIdle
  /\ \E r \in 1..MaxRate, b \in 0..MaxBucket : LimiterBuilt(r, b)
  /\ RetryUnset
  /\ withResult = FALSE
  /\ RetryIdle
  /\ DispatchUnset
  /\ CacheUnset
  /\ GetIdle
  /\ GosIdle
  /\ CatIdle
  /\ ErrIdle
  /\ DelayIdle
  /\ CloseIdle
  /\ AccIdle
  /\ AuthIdle

NextLimiter ==
  \/ TryAcquireCall
  \/ Available
  \/ Tick
  \/ \E c \in Callers : WaitCall(c)
  \/ \E c \in Callers : WaitTry(c)
  \/ \E c \in Callers : WaitSelect(c)
  \/ \E c \in Callers : WaitTimerFire(c)
  \/ \E c \in Callers : WaitResume(c)
  \/ \E c \in Callers : Cancel(c)

SpecLimiter == InitLimiter /\ [][NextLimiter]_vars

\* ------------------------------------------------------- RateLimiter claims

\* C1: in every reachable state of a limiter built with rate > 0 and
\* capacity >= 0, 0 <= tokens <= capacity; a step lowers tokens only when it
\* is a granted admission, and a granted admission leaves exactly one token
\* less than the refilled bucket held.
C1_TokensBounded ==
  /\ [](0 <= tokens /\ tokens <= bucketSize)
  /\ [][LET refilled == Min(bucketSize, tokens + (now - lastUpdate) * rate)
            granted == evt'.op = "TryAcquire" /\ evt'.ret = TRUE
        IN /\ tokens' < tokens => granted
           /\ granted => tokens' = refilled - TokenUnit
           /\ ~granted => tokens' >= tokens]_vars

\* A grant has emptied a bucket that had been refilled after an earlier grant.
C1_Witness ==
  /\ evt.op = "TryAcquire" /\ evt.ret = TRUE
  /\ tokens = 0
  /\ lastUpdate > 0
  /\ bucketSize >= TokenUnit

\* C2: while no time elapses, the TryAcquire calls that return true, whoever
\* makes them, never number more than the capacity in tokens.
C2_GrantsWithinCapacity == grantsNow * TokenUnit <= bucketSize

\* Both callers of Wait and nobody else were admitted in one instant from a
\* bucket of two tokens, and the next TryAcquire was refused.
C2_Witness ==
  /\ bucketSize = 2 * TokenUnit
  /\ grantsNow = 2
  /\ wres = [c \in Callers |-> "nil"]
  /\ evt.op = "TryAcquire" /\ evt.ret = FALSE

\* C3: TryAcquire can always be taken (it never blocks); it refills to
\* min(capacity, tokens + elapsed * rate), returns true iff the refilled count
\* is at least one token, deducts exactly one token then, and leaves the
\* refilled count when it returns false.
C3_TryAcquire ==
  /\ [](ENABLED TryAcquireCall)
  /\ [][evt'.op = "TryAcquire" =>
          LET refilled == Min(bucketSize, tokens + (now - lastUpdate) * rate)
          IN /\ evt'.ret = (refilled >= TokenUnit)
             /\ tokens' = IF refilled >= TokenUnit THEN refilled - TokenUnit
                          ELSE refilled
             /\ lastUpdate' = now]_vars

\* A refused TryAcquire has left a refilled, capped, fractional count.
C3_Witness ==
  /\ evt.op = "TryAcquire" /\ evt.ret = FALSE
  /\ tokens > 0 /\ tokens < TokenUnit
  /\ tokens = bucketSize
  /\ lastUpdate > 0

\* ------------------------------------------------------- the retryer alone

MaxRetriesIn == 2

\* The configurations handed to NewRetryer.
RetryConfigsIn ==
  [MaxRetries : -1..MaxRetriesIn,
   BaseDelay : {0, 1},
   MaxDelay : {0},
   Multiplier : {0, FDen \div 2},
   Jitter : {0, FDen},
   ShouldRetry : {"nil", "IsRetryable"}]

InitRetry ==
  /\ CallersIdle
  /\ LimiterUnset
  /\ cfgIn \in RetryConfigsIn
  /\ config = NewRetryer(cfgIn)
  /\ withResult \in BOOLEAN
  /\ RetryIdle
  /\ DispatchUnset
  /\ CacheUnset
  /\ GetIdle
  /\ GosIdle
  /\ CatIdle
  /\ ErrIdle
  /\ DelayIdle
  /\ CloseIdle
  /\ AccIdle
  /\ AuthIdle

NextRetry ==
  \/ DoCall
  \/ DoAttempt
  \/ DoTimerFire
  \/ DoResume
  \/ Cancel("c1")

SpecRetry == InitRetry /\ [][NextRetry]_vars

\* ----------------------------------------------------------- Retryer claims

\* The outcome of the last invocation of the operation.
LastOutcome == outcomes[Len(outcomes)]

\* Every invocation so far failed with an error the configured policy retries.
AllRetryableFailures ==
  \A i \in 1..Len(outcomes) :
    /\ outcomes[i] # "nil"
    /\ cfgIn.ShouldRetry = "nil" \/ IsRetryable(ErrOf(outcomes[i]))

\* C5: a context already cancelled when Do or DoWithResult is called makes
\* the call return the cancellation error with the operation invoked zero
\* times.
C5_PreCancelledDo ==
  preCancelled =>
    /\ outcomes = <<>>
    /\ rpc = "done" => rres = CtxErr

\* C6 as stated: for MaxRetries = n >= 0 handed to NewRetryer, an operation
\* that always fails with a retryable error under a context that is never
\* cancelled is invoked exactly n + 1 times and the last error is returned.
C6_ExhaustionAsStated ==
  (rpc = "done" /\ ~cancelled["c1"] /\ AllRetryableFailures /\ cfgIn.MaxRetries >= 0) =>
    /\ Len(outcomes) = cfgIn.MaxRetries + 1
    /\ rres = OpErr(LastOutcome, Len(outcomes))

\* C6 amended: for MaxRetries = n >= 1 the operation is invoked exactly n + 1
\* times; for n <= 0 NewRetryer puts 3 in its place and the operation is
\* invoked exactly 4 times; in both cases the error of the last invocation is
\* returned.
C6_Exhaustion ==
  (rpc = "done" /\ ~cancelled["c1"] /\ AllRetryableFailures) =>
    /\ Len(outcomes) = (IF cfgIn.MaxRetries >= 1 THEN cfgIn.MaxRetries ELSE 3) + 1
    /\ rres = OpErr(LastOutcome, Len(outcomes))
    /\ withResult => rresult = Len(outcomes)

\* DoWithResult with MaxRetries = 2 gave up after three retryable failures.
C6_Witness ==
  /\ rpc = "done"
  /\ ~cancelled["c1"]
  /\ withResult
  /\ cfgIn.MaxRetries = 2
  /\ cfgIn.ShouldRetry = "IsRetryable"
  /\ outcomes = <<"NetworkError", "NetworkError", "NetworkError">>
  /\ rres = OpErr("NetworkError", 3)

\* C7: an invocation that fails with an error for which the configured
\* ShouldRetry returns false is the last one; Do has returned exactly that
\* error, and entered no sleep after it, whatever MaxRetries is.
C7_NonRetryable ==
  \A i \in 1..Len(outcomes) :
    (/\ outcomes[i] # "nil"
     /\ cfgIn.ShouldRetry = "IsRetryable"
     /\ ~IsRetryable(ErrOf(outcomes[i]))) =>
       /\ i = Len(outcomes)
       /\ rpc = "done"
       /\ rres = OpErr(outcomes[i], i)
       /\ sleeps = i - 1

\* With three retries left, a second invocation failed with an error that is
\* not to be retried.
C7_Witness ==
  /\ config.MaxRetries = 3
  /\ cfgIn.ShouldRetry = "IsRetryable"
  /\ outcomes = <<"NetworkError", "other">>
  /\ rpc = "done"

\* C8: once the context is cancelled while Do sleeps between attempts, the
\* operation is not invoked again, and Do returns the cancellation error, not
\* the last error of the operation.
C8_CancelInSleep ==
  cancelAt >= 0 =>
    /\ Len(outcomes) = cancelAt
    /\ rpc \in {"select", "done"}
    /\ rpc = "done" => (rres = CtxErr /\ rres # lastErr)

\* Do was cancelled in its second sleep and has returned.
C8_Witness ==
  /\ cancelAt = 2
  /\ rpc = "done"
  /\ lastErr = OpErr("NetworkError", 2)

\* ------------------------------------------------------------ the dispatcher

\* The configurations handed to NewClient.
ClientConfigs ==
  {DefaultConfig(r) : r \in 0..MaxRate} \cup
  {WithRetry(DefaultConfig(r), m, d) : r \in 0..MaxRate, m \in 0..MaxRetriesIn, d \in {0, 1}}

InitDispatch ==
  /\ CallersIdle
  /\ clientCfg \in ClientConfigs
  /\ hasLimiter = ClientHasLimiter(clientCfg)
  /\ hasRetryer = ClientHasRetryer(clientCfg)
  /\ IF hasLimiter
       THEN LET l == NewRateLimiter(clientCfg.RateLimit)
            IN /\ rate = l.rate
               /\ bucketSize = l.bucketSize
               /\ tokens = l.tokens
               /\ lastUpdate = l.lastUpdate
       ELSE LimiterUnset
  /\ IF hasRetryer
       THEN /\ cfgIn = ClientRetryConfig(clientCfg)
            /\ config = NewRetryer(cfgIn)
       ELSE RetryUnset
  /\ withResult \in BOOLEAN
  /\ RetryIdle
  /\ dpc = "idle"
  /\ dres = NilErr
  /\ CacheUnset
  /\ GetIdle
  /\ GosIdle
  /\ CatIdle
  /\ ErrIdle
  /\ DelayIdle
  /\ CloseIdle
  /\ AccIdle
  /\ AuthIdle

\* Another call admitted through the same limiter.
OtherAdmission ==
  /\ hasLimiter
  /\ TryAcquireCall

NextDispatch ==
  \/ ExecCall
  \/ WaitTry("c1")
  \/ WaitSelect("c1")
  \/ WaitTimerFire("c1")
  \/ WaitResume("c1")
  \/ ExecAfterWait
  \/ ExecAdmitted
  \/ DoAttempt
  \/ DoTimerFire
  \/ DoResume
  \/ ExecReturn
  \/ OtherAdmission
  \/ Cancel("c1")
  \/ Tick

SpecDispatch == InitDispatch /\ [][NextDispatch]_vars

\* -------------------------------------------------------- dispatcher claims

\* C4: a context already cancelled when it is passed to Wait makes Wait
\* return the cancellation error without granting a token, and the dispatcher
\* invokes the operation zero times.
C4_PreCancelledWait ==
  (hasLimiter /\ preCancelled /\ dpc # "idle") =>
    /\ wres["c1"] # "nil"
    /\ outcomes = <<>>
    /\ dpc = "done" => dres = CtxErr

\* C9: Do returns nil only when the last invocation of the operation returned
\* nil, and the dispatcher returns nil only when, moreover, the limiter (if
\* there is one) admitted the call.
C9_NoSwallowedFailure ==
  /\ (rpc = "done" /\ rres = NilErr) =>
       (Len(outcomes) >= 1 /\ LastOutcome = "nil")
  /\ (dpc = "done" /\ dres = NilErr) =>
       /\ hasLimiter => wres["c1"] = "nil"
       /\ Len(outcomes) >= 1 /\ LastOutcome = "nil"

\* A call through limiter and retryer returned nil after a failed attempt.
C9_Witness ==
  /\ dpc = "done" /\ dres = NilErr
  /\ hasLimiter /\ hasRetryer
  /\ outcomes = <<"NetworkError", "nil">>

\* ----------------------------------------------------------------- the cache

InitCache ==
  /\ CallersIdle
  /\ LimiterUnset
  /\ RetryUnset
  /\ withResult = FALSE
  /\ RetryIdle
  /\ DispatchUnset
  /\ defaultTTL \in {MaxTTL, MaxTTL + 1}
  /\ entries = [k \in Keys |-> NoEntry]
  /\ nsets = 0
  /\ closed = FALSE
  /\ tickPending = FALSE
  /\ spc = "loop"
  /\ sweepNow = 0
  /\ GetIdle
  /\ GosIdle
  /\ CatIdle
  /\ ErrIdle
  /\ DelayIdle
  /\ CloseIdle
  /\ AccIdle
  /\ AuthIdle

NextCache ==
  \/ \E k \in Keys : GetRead(k)
  \/ GetCheck
  \/ GetDelete
  \/ \E k \in Keys, v \in Vals, ttl \in TTLs : SetWithTTL(k, v, ttl)
  \/ \E k \in Keys, v \in Vals : Set(k, v)
  \/ \E k \in Keys : Delete(k)
  \/ Clear
  \/ CleanupTick
  \/ CleanupSweep
  \/ CleanupStop
  \/ Close
  \/ Tick

SpecCache == InitCache /\ [][NextCache]_vars

\* -------------------------------------------------------------- Cache claims

\* C10: Get returns (value, true) only with the value of an entry it found
\* under the key and found not expired when it tested it; a lookup that finds
\* the key absent returns not-found and leaves the map as it was; a lookup
\* that finds an expired entry returns not-found, and that entry is not in the
\* map when Get returns.
C10_Get ==
  /\ []((gpc = "done" /\ gret.found) =>
          /\ gentry # NoEntry
          /\ gret.val = gentry.val
          /\ gcheck <= gentry.exp)
  /\ []((gpc = "done" /\ gentry # NoEntry /\ gcheck > gentry.exp) =>
          /\ gret = NotFound
          /\ entries[gkey] # gentry)
  /\ [][/\ (getState' # getState /\ gpc' = "done" /\ gentry' = NoEntry) =>
             (gret' = NotFound /\ entries' = entries)
        /\ (gpc = "delete" /\ gpc' = "done") =>
             entries' = [entries EXCEPT ![gkey] = NoEntry]]_vars

\* Get found an expired entry under k1 and has returned not-found; k1 is gone
\* and the entry under k2 is still there.
C10_Witness ==
  /\ gpc = "done"
  /\ gkey = "categories"
  /\ gentry # NoEntry
  /\ gcheck > gentry.exp
  /\ gret = NotFound
  /\ entries["categories"] = NoEntry
  /\ entries["k2"] # NoEntry

\* C11: no cache operation loses an update: an entry that is in the map and
\* has not expired leaves the map only through Delete, Clear or a later Set
\* under its key, never through a step of Get or of the cleanup.
C11_NoLostUpdate ==
  [][\A k \in Keys :
       (entries[k] # NoEntry /\ ~IsExpired(entries[k], now) /\ entries'[k] = NoEntry)
         => (getState' = getState /\ spc' = spc)]_vars

\* ------------------------------------------------------------ GetOrSet alone

InitGetOrSet ==
  /\ CallersIdle
  /\ LimiterUnset
  /\ RetryUnset
  /\ withResult = FALSE
  /\ RetryIdle
  /\ DispatchUnset
  /\ defaultTTL \in {MaxTTL, MaxTTL + 1}
  /\ entries = [k \in Keys |-> NoEntry]
  /\ nsets = 0
  /\ closed = FALSE
  /\ tickPending = FALSE
  /\ spc = "loop"
  /\ sweepNow = 0
  /\ GetIdle
  /\ GosIdle
  /\ CatIdle
  /\ ErrIdle
  /\ DelayIdle
  /\ CloseIdle
  /\ AccIdle
  /\ AuthIdle

NextGetOrSet ==
  \/ \E k \in Keys : GetOrSetCall(k)
  \/ (opc = "get" /\ gpc = "idle" /\ GetRead(okey))
  \/ GetCheck
  \/ GetDelete
  \/ GetOrSetAfterGet
  \/ GetOrSetFn
  \/ GetOrSetStore
  \/ \E k \in Keys : Delete(k)
  \/ CleanupTick
  \/ CleanupSweep
  \/ Tick

SpecGetOrSet == InitGetOrSet /\ [][NextGetOrSet]_vars

\* ----------------------------------------------------------- GetOrSet claims

\* Some invocation of fn for key k has returned a value.
FnSucceededFor(k) ==
  \E i \in 1..Len(fnLog) : fnLog[i].key = k /\ fnLog[i].out # "error"

\* C12: GetOrSet never caches a failure: when fn returns an error the call
\* returns that error with no value and that step leaves the map as it is;
\* c.Set runs only after an fn that returned a value; so as long as no Set
\* and no successful fn has stored anything under the key, a GetOrSet for it
\* finds nothing, invokes fn and, fn failing again, returns the error.
C12_NeverCachesFailure ==
  /\ [][(fnLog' # fnLog /\ fnLog'[Len(fnLog')].out = "error") =>
          /\ opc' = "done"
          /\ ores'.err = "error"
          /\ ores'.val = "none"
          /\ entries' = entries]_vars
  /\ [][(opc = "set" /\ opc' = "done") =>
          fnLog[Len(fnLog)] \in [key : {okey}, out : Vals]]_vars
  /\ []((opc = "done" /\ nsets = 0 /\ ~FnSucceededFor(okey)) =>
          /\ ~gret.found
          /\ ores.calls = 1
          /\ ores.err = "error"
          /\ entries[okey] = NoEntry)

\* Two GetOrSet calls for one key have each invoked fn, which failed both
\* times; nothing is stored.
C12_Witness ==
  /\ opc = "done"
  /\ nsets = 0
  /\ fnLog = <<[key |-> "categories", out |-> "error"],
               [key |-> "categories", out |-> "error"]>>
  /\ ores.err = "error"
  /\ entries["categories"] = NoEntry

\* C13: GetOrSet returns the value its Get found, without invoking fn;
\* otherwise it invokes fn exactly once, and a value fn returned is in the
\* map under the key with the default TTL when the call returns; hence a call
\* whose lookup finds that entry and tests it within its TTL does not invoke
\* fn.
C13_GetOrSet ==
  /\ [][(opc = "get" /\ opc' # "get" /\ gret.found) =>
          /\ opc' = "done"
          /\ fnLog' = fnLog
          /\ entries' = entries
          /\ ores' = [val |-> gentry.val, err |-> "nil", calls |-> 0]]_vars
  /\ [](opc = "done" => ores.calls = IF gret.found THEN 0 ELSE 1)
  /\ [][(opc = "set" /\ opc' = "done") =>
          /\ ores'.val = fnLog[Len(fnLog)].out
          /\ ores'.err = "nil"
          /\ entries'[okey] = [val |-> ores'.val, exp |-> now + defaultTTL]]_vars
  /\ []((opc = "done" /\ gentry # NoEntry /\ gcheck <= gentry.exp) =>
          /\ ores.calls = 0
          /\ ores.val = gentry.val)

\* A first GetOrSet invoked fn and stored its value; a second one for the same
\* key, later but within the TTL, has returned that value without invoking fn.
C13_Witness ==
  /\ opc = "done"
  /\ nsets = 0
  /\ fnLog = <<[key |-> "categories", out |-> "v1"]>>
  /\ gret.found
  /\ ores = [val |-> "v1", err |-> "nil", calls |-> 0]
  /\ gcheck > 0

\* C14: SetWithTTL(k, v, t) stores v under k with expiry now + t; a Get that
\* finds an entry and tests it before its expiry returns (v, true); a Get that
\* tests it after its expiry returns not-found and has removed the key, so
\* that Size no longer counts it; a sweep too takes every entry expired at
\* its clock reading out of what Size counts.
C14_Freshness ==
  /\ [][nsets' # nsets =>
          \E k \in Keys, v \in Vals, t \in TTLs \cup {defaultTTL} :
            entries' = [entries EXCEPT ![k] = [val |-> v, exp |-> now + t]]]_vars
  /\ []((gpc = "done" /\ gentry # NoEntry /\ gcheck < gentry.exp) =>
          gret = [val |-> gentry.val, found |-> TRUE])
  /\ [][(gpc = "check" /\ now > gentry.exp /\ gpc' # "check") =>
          (gpc' = "delete" /\ entries' = entries)]_vars
  /\ [][(gpc = "delete" /\ gpc' = "done") =>
          /\ gret' = NotFound
          /\ entries'[gkey] = NoEntry
          /\ Size' = Cardinality({k \in Keys \ {gkey} : entries[k] # NoEntry})]_vars
  /\ [][(spc = "sweep" /\ spc' = "loop") =>
          Size' = Cardinality({k \in Keys : entries[k] # NoEntry /\
                                            ~(sweepNow > entries[k].exp)})]_vars

\* An entry stored at clock 0 with the explicit TTL MaxTTL was read after its
\* expiry: not-found, and the map is empty.
C14_Witness ==
  /\ gpc = "done"
  /\ gentry = [val |-> "v1", exp |-> MaxTTL]
  /\ gcheck > MaxTTL
  /\ gret = NotFound
  /\ Size = 0
  /\ nsets = 1

\* C15: once Close has returned, the cleanup goroutine starts no further
\* sweep, so cleanup removes no entry later, not even for a tick that was
\* waiting when Close was called.
C15_NoSweepAfterClose ==
  [][(closed /\ spc = "loop") => spc' # "sweep"]_vars

\* ------------------------------------------------- the cache and its sweeps

InitSweep ==
  /\ CallersIdle
  /\ LimiterUnset
  /\ RetryUnset
  /\ withResult = FALSE
  /\ RetryIdle
  /\ DispatchUnset
  /\ defaultTTL \in {MaxTTL, 2 * MaxTTL}
  /\ entries = [k \in Keys |-> NoEntry]
  /\ nsets = 0
  /\ closed = FALSE
  /\ tickPending = FALSE
  /\ spc = "loop"
  /\ sweepNow = 0
  /\ GetIdle
  /\ GosIdle
  /\ CatIdle
  /\ ErrIdle
  /\ DelayIdle
  /\ CloseIdle
  /\ AccIdle
  /\ AuthIdle

NextSweep ==
  \/ \E k \in Keys, v \in Vals, ttl \in TTLs : SetWithTTL(k, v, ttl)
  \/ \E k \in Keys, v \in Vals : Set(k, v)
  \/ \E k \in Keys : Delete(k)
  \/ CleanupTick
  \/ CleanupSweep
  \/ CleanupStop
  \/ Close
  \/ TickPrompt

SpecSweep == InitSweep /\ [][NextSweep]_vars

InitErrors ==
  /\ CallersIdle
  /\ LimiterUnset
  /\ RetryUnset
  /\ withResult = FALSE
  /\ RetryIdle
  /\ DispatchUnset
  /\ CacheUnset
  /\ GetIdle
  /\ GosIdle
  /\ CatIdle
  /\ errIn \in Errs
  /\ eret = <<>>
  /\ DelayIdle
  /\ CloseIdle
  /\ AccIdle
  /\ AuthIdle

NextErrors == \E err \in Errs : IsRetryableCall(err)

SpecErrors == InitErrors /\ [][NextErrors]_vars

\* The retryable errors of the claim: a NetworkError, ErrRateLimited or
\* ErrTimeout somewhere in the chain.
RetryableKinds == {"NetworkError", "ErrRateLimited", "ErrTimeout"}

\* C17: IsRetryable returns true exactly for an error that is or wraps a
\* NetworkError, ErrRateLimited or ErrTimeout; it returns false for nil, for
\* a SOAPFault, an APIError, a context cancellation error and any other
\* error, bare or wrapped with fmt.Errorf; and it returns the same answer
\* whenever it is called again with the same error.
C17_IsRetryable ==
  /\ [](eret # <<>> =>
          /\ eret[1] = (\E i \in 1..Len(errIn) : errIn[i] \in RetryableKinds)
          /\ errIn = <<>> => eret[1] = FALSE
          /\ (errIn # <<>> /\
              errIn[Len(errIn)] \in {"SOAPFault", "APIError", "context.Canceled",
                                     "ErrNotFound", "other"} /\
              \A i \in 1..(Len(errIn) - 1) : errIn[i] = "Wrapped") => eret[1] = FALSE)
  /\ [][(eret # <<>> /\ errIn' = errIn) => eret' = eret]_vars

\* IsRetryable has answered false for a wrapped SOAPFault.
C17_Witness ==
  /\ errIn = <<"Wrapped", "SOAPFault">>
  /\ eret = <<FALSE>>

\* ------------------------------------------------- dispatcher claims, order

\* C18: with a limiter, the operation is invoked and the Retryer entered only
\* after Wait has returned nil; if Wait returns the cancellation error, the
\* dispatcher returns that error, the operation has not been invoked and Do
\* has not been entered.
C18_WaitFirst ==
  /\ [][(hasLimiter /\ (outcomes' # outcomes \/ rpc' # rpc)) =>
          (wpc["c1"] = "done" /\ wres["c1"] = "nil")]_vars
  /\ []((hasLimiter /\ wres["c1"] = "ctxErr") =>
          /\ outcomes = <<>>
          /\ rpc = "idle"
          /\ dpc \in {"wait", "done"}
          /\ dpc = "done" => dres = CtxErr)

\* Wait was cancelled while the call waited for a token and the dispatcher
\* has returned its error; the retryer was never entered.
C18_Witness ==
  /\ hasLimiter /\ hasRetryer
  /\ ~preCancelled
  /\ wres["c1"] = "ctxErr"
  /\ dpc = "done"
  /\ dres = CtxErr
  /\ outcomes = <<>>
  /\ rpc = "idle"

\* -------------------------------------------- the client and GetCategories

\* The configurations handed to NewClient: each middleware on or off.
CategoryConfigs ==
  {WithCache(c, ttl) :
     c \in {DefaultConfig(r) : r \in {0, 1}} \cup
           {WithRetry(DefaultConfig(r), 1, 1) : r \in {0, 1}},
     ttl \in {0, MaxTTL}}

InitCategories ==
  /\ CallersIdle
  /\ clientCfg \in CategoryConfigs
  /\ hasLimiter = ClientHasLimiter(clientCfg)
  /\ hasRetryer = ClientHasRetryer(clientCfg)
  /\ hasCache = ClientHasCache(clientCfg)
  /\ IF hasLimiter
       THEN LET l == NewRateLimiter(clientCfg.RateLimit)
            IN /\ rate = l.rate
               /\ bucketSize = l.bucketSize
               /\ tokens = l.tokens
               /\ lastUpdate = l.lastUpdate
       ELSE LimiterUnset
  /\ IF hasRetryer
       THEN /\ cfgIn = ClientRetryConfig(clientCfg)
            /\ config = NewRetryer(cfgIn)
       ELSE RetryUnset
  /\ withResult = TRUE
  /\ RetryIdle
  /\ dpc = "idle"
  /\ dres = NilErr
  /\ IF hasCache THEN CacheBuilt(clientCfg.CacheTTL) ELSE CacheUnset
  /\ GetIdle
  /\ GosIdle
  /\ cpc = "idle"
  /\ cres = [val |-> "none", err |-> NilErr]
  /\ ErrIdle
  /\ DelayIdle
  /\ CloseIdle
  /\ AccIdle
  /\ AuthIdle

\* Another GetCategories call stores its result.
OtherStore ==
  /\ hasCache
  /\ \E v \in Vals : Set("categories", v)

NextCategories ==
  \/ GetCategoriesCall
  \/ (cpc = "get" /\ gpc = "idle" /\ GetRead("categories"))
  \/ GetCheck
  \/ GetDelete
  \/ GetCategoriesAfterGet
  \/ (cpc = "exec" /\ ExecCall)
  \/ WaitTry("c1")
  \/ WaitSelect("c1")
  \/ WaitTimerFire("c1")
  \/ WaitResume("c1")
  \/ ExecAfterWait
  \/ ExecAdmitted
  \/ DoAttempt
  \/ DoTimerFire
  \/ DoResume
  \/ ExecReturn
  \/ GetCategoriesAfterExec
  \/ OtherStore
  \/ OtherAdmission
  \/ CleanupTick
  \/ CleanupSweep
  \/ Cancel("c1")
  \/ Tick

SpecCategories == InitCategories /\ [][NextCategories]_vars

\* C19: a cache hit bypasses rate limiting and retry: when GetCategories'
\* Get finds a fresh "categories" entry the call returns that value, Wait has
\* not been called, no token is taken for it and the operation is not invoked;
\* on a miss the full sequence of executeWithMiddlewareResult runs, a
\* successful result is stored under "categories" with the default TTL, and a
\* failed one is returned with the map left as it is.
C19_CacheHitBypass ==
  /\ [][(cpc = "get" /\ cpc' # "get" /\ gret.found) =>
          /\ cpc' = "done"
          /\ cres' = [val |-> gentry.val, err |-> NilErr]
          /\ tokens' = tokens]_vars
  /\ []((cpc = "done" /\ hasCache /\ gret.found) =>
          /\ dpc = "idle"
          /\ wpc["c1"] = "idle"
          /\ rpc = "idle"
          /\ outcomes = <<>>)
  /\ []((cpc = "done" /\ ~(hasCache /\ gret.found)) =>
          /\ dpc = "done"
          /\ cres.err = dres
          /\ hasLimiter => wpc["c1"] = "done")
  /\ [][(cpc = "exec" /\ cpc' = "done") =>
          IF dres = NilErr
            THEN /\ cres'.val \in Vals
                 /\ hasCache => entries' =
                      [entries EXCEPT !["categories"] =
                         [val |-> cres'.val, exp |-> now + defaultTTL]]
                 /\ ~hasCache => entries' = entries
            ELSE /\ cres' = [val |-> "none", err |-> dres]
                 /\ entries' = entries]_vars

\* A client with limiter, retryer and cache has answered GetCategories from
\* the cache: no Wait, no invocation, the bucket still full.
C19_Witness ==
  /\ hasLimiter /\ hasRetryer /\ hasCache
  /\ cpc = "done"
  /\ gret.found
  /\ cres = [val |-> "v1", err |-> NilErr]
  /\ wpc["c1"] = "idle"
  /\ outcomes = <<>>
  /\ tokens = bucketSize

\* C20: the three middlewares are independently optional: the client has a
\* limiter iff RateLimit > 0, a retryer iff RetryEnabled, a cache iff
\* CacheTTL > 0; without a limiter the dispatcher never enters Wait, and
\* without a retryer the operation is invoked exactly once and what it
\* returned is what the dispatcher returns.
C20_OptionalMiddlewares ==
  /\ hasLimiter <=> clientCfg.RateLimit > 0
  /\ hasRetryer <=> clientCfg.RetryEnabled
  /\ hasCache <=> clientCfg.CacheTTL > 0
  /\ hasCache <=> spc # "none"
  /\ ~hasLimiter => (wpc["c1"] = "idle" /\ dpc # "wait" /\ tokens = 0)
  /\ ~hasRetryer => (rpc = "idle" /\ Len(outcomes) <= 1)
  /\ (~hasRetryer /\ dpc = "done" /\ (hasLimiter => wres["c1"] = "nil")) =>
       /\ Len(outcomes) = 1
       /\ dres = IF outcomes[1] = "nil" THEN NilErr ELSE OpErr(outcomes[1], 1)
       /\ rresult = 1

\* A client with a cache only has made its one invocation, which failed, and
\* returned its error.
C20_Witness ==
  /\ ~hasLimiter /\ ~hasRetryer /\ hasCache
  /\ cpc = "done"
  /\ outcomes = <<"SOAPFault">>
  /\ cres.err = OpErr("SOAPFault", 1)

\* ------------------------------------------------- the backoff delay alone

MaxAttempt == 4

\* The configurations handed to NewRetryer: every field below, at and above
\* the values NewRetryer tests for. Delays are counted in units of 100ms for
\* the configuration of the backoff example (base 1, cap 10).
DelayConfigsIn ==
  [MaxRetries : {-1, 0, 1},
   BaseDelay : {-1, 0, 1, 3},
   MaxDelay : {-1, 0, 4, 10},
   Multiplier : {-FDen, 0, FDen \div 2, FDen, 2 * FDen},
   Jitter : {-1, 0, FDen \div 5, FDen, FDen + 1},
   ShouldRetry : {"nil"}]

InitDelay ==
  /\ CallersIdle
  /\ LimiterUnset
  /\ cfgIn \in DelayConfigsIn
  /\ config = NewRetryer(cfgIn)
  /\ withResult = FALSE
  /\ RetryIdle
  /\ DispatchUnset
  /\ CacheUnset
  /\ GetIdle
  /\ GosIdle
  /\ CatIdle
  /\ ErrIdle
  /\ DelayIdle
  /\ CloseIdle
  /\ AccIdle
  /\ AuthIdle

NextDelay == \E a \in 0..MaxAttempt, rnd \in RandDraws : calculateDelayCall(a, rnd)

SpecDelay == InitDelay /\ [][NextDelay]_vars

\* ----------------------------------------------------------- backoff claims

\* base * multiplier^n, truncated to a whole duration.
RawDelay(n) == (config.BaseDelay * Pow(config.Multiplier, n)) \div Pow(FDen, n)

\* C21: with jitter 0 the delay for attempt n is min(maxDelay, baseDelay *
\* multiplier^n) (as a whole duration); for baseDelay 100ms, multiplier 2 and
\* maxDelay 1s the delays of attempts 0 to 4 are 100ms, 200ms, 400ms, 800ms and
\* 1000ms, here 1, 2, 4, 8 and 10 units of 100ms.
C21_BackoffGrowth ==
  (dOut # <<>> /\ config.Jitter = 0) =>
    /\ dOut[1] = Min(config.MaxDelay, RawDelay(dIn.attempt))
    /\ (config.BaseDelay = 1 /\ config.Multiplier = 2 * FDen /\
        config.MaxDelay = 10 /\ dIn.attempt <= 4) =>
         dOut[1] = <<1, 2, 4, 8, 10>>[dIn.attempt + 1]

\* The delay of attempt 4 of the example was capped at 1s.
C21_Witness ==
  /\ dOut = <<10>>
  /\ dIn.attempt = 4
  /\ config.Jitter = 0
  /\ config.BaseDelay = 1 /\ config.Multiplier = 2 * FDen /\ config.MaxDelay = 10

\* C22: the delay is the clamped d = min(maxDelay, baseDelay * multiplier^n)
\* perturbed afterwards by the factor -jitter + 2 * jitter * draw of
\* [-jitter, +jitter], so that the delays of attempt n fill the interval from
\* d * (1 - jitter) to d * (1 + jitter).
C22_JitterAfterClamp ==
  dOut # <<>> =>
    LET a == dIn.attempt
        factor == FDen * FDen - config.Jitter * FDen + 2 * config.Jitter * dIn.rnd
        raw == config.BaseDelay * Pow(config.Multiplier, a)
    IN dOut[1] = IF raw > config.MaxDelay * Pow(FDen, a)
                   THEN (config.MaxDelay * factor) \div (FDen * FDen)
                   ELSE (raw * factor) \div (Pow(FDen, a) * FDen * FDen)

\* C23: NewRetryer replaces a non-positive MaxRetries by 3, a non-positive
\* BaseDelay by 1s, a non-positive MaxDelay by 30s and a non-positive
\* Multiplier by 2.0, clamps Jitter into [0, 1], and keeps every positive value
\* of the first four fields and every Jitter of [0, 1] as it is.
C23_Normalised ==
  /\ config.MaxRetries = IF cfgIn.MaxRetries <= 0 THEN 3 ELSE cfgIn.MaxRetries
  /\ config.BaseDelay = IF cfgIn.BaseDelay <= 0 THEN Second ELSE cfgIn.BaseDelay
  /\ config.MaxDelay = IF cfgIn.MaxDelay <= 0 THEN 30 * Second ELSE cfgIn.MaxDelay
  /\ config.Multiplier = IF cfgIn.Multiplier <= 0 THEN 2 * FDen ELSE cfgIn.Multiplier
  /\ config.Jitter = IF cfgIn.Jitter < 0 THEN 0
                     ELSE IF cfgIn.Jitter > FDen THEN FDen ELSE cfgIn.Jitter
  /\ config.ShouldRetry = cfgIn.ShouldRetry
  /\ (cfgIn.MaxRetries > 0 /\ cfgIn.BaseDelay > 0 /\ cfgIn.MaxDelay > 0 /\
      cfgIn.Multiplier > 0 /\ cfgIn.Jitter >= 0 /\ cfgIn.Jitter <= FDen) =>
       config = cfgIn

\* A Retryer built from a configuration with every field out of range, which
\* has computed a delay from the defaults.
C23_Witness ==
  /\ cfgIn = [MaxRetries |-> 0, BaseDelay |-> 0, MaxDelay |-> -1,
              Multiplier |-> -FDen, Jitter |-> FDen + 1, ShouldRetry |-> "nil"]
  /\ config = [MaxRetries |-> 3, BaseDelay |-> Second, MaxDelay |-> 30 * Second,
               Multiplier |-> 2 * FDen, Jitter |-> FDen, ShouldRetry |-> "nil"]
  /\ dOut # <<>>

\* C24: every Retryer built by NewRetryer has a multiplier of at least 1 and
\* a jitter in [0, 1], so that the delay without jitter does not decrease
\* from one attempt to the next.
C24_PolicyInvariant ==
  /\ config.Multiplier >= FDen
  /\ 0 <= config.Jitter /\ config.Jitter <= FDen
  /\ \A n \in 0..(MaxAttempt - 1) :
       calculateDelay([config EXCEPT !.Jitter = 0], n, 0) <=
         calculateDelay([config EXCEPT !.Jitter = 0], n + 1, 0)

\* ------------------------------------------------ RateLimiter claims, burst

\* C25: a new limiter holds tokens = capacity until the first TryAcquire, and
\* each of the first floor(capacity) calls of TryAcquire, made directly or by
\* Wait, returns true whatever time has passed; a Wait that makes one of them
\* returns nil from it without entering its select.
C25_FullAtStart ==
  /\ [](acqCalls = 0 => tokens = bucketSize)
  /\ [][(evt'.op = "TryAcquire" /\ (acqCalls + 1) * TokenUnit <= bucketSize) =>
          /\ evt'.ret = TRUE
          /\ acqCalls' = acqCalls + 1
          /\ \A c \in Callers :
               wpc'[c] # wpc[c] => (wpc'[c] = "done" /\ wres'[c] = "nil")]_vars

\* A bucket of two tokens has admitted two calls at the instant it was built,
\* one of them a Wait.
C25_Witness ==
  /\ now = 0
  /\ bucketSize = 2 * TokenUnit
  /\ acqCalls = 2
  /\ tokens = 0
  /\ wres["c1"] = "nil"
  /\ wpc["c2"] = "idle"

\* C26: Available refills and reports: it returns min(capacity, tokens +
\* elapsed * rate), never more than the capacity and never less than the
\* count before the call (it deducts nothing); once capacity / rate has
\* passed since the last granted acquisition, whatever the bucket held then,
\* it returns exactly the capacity.
C26_Available ==
  [][evt'.op = "Available" =>
       /\ evt'.ret = tokens'
       /\ tokens' = Min(bucketSize, tokens + (now - lastUpdate) * rate)
       /\ tokens' >= tokens
       /\ tokens' <= bucketSize
       /\ lastUpdate' = now
       /\ (now - lastGrant) * rate >= bucketSize => evt'.ret = bucketSize]_vars

\* A bucket of two tokens was emptied, and exactly capacity / rate later
\* Available reports the full capacity.
C26_Witness ==
  /\ evt = [op |-> "Available", ret |-> bucketSize]
  /\ bucketSize = 2 * TokenUnit
  /\ acqCalls >= 2
  /\ lastGrant > 0
  /\ (now - lastGrant) * rate = bucketSize

\* C27: Size and Keys count every entry in the map, expired ones included:
\* Size is the number of keys Keys returns, the passing of time alone changes
\* neither, Clear leaves Size 0, and Delete(k) removes k and leaves every
\* other entry as it was.
C27_SizeAndKeys ==
  /\ [](Size = Cardinality(CacheKeys))
  /\ [](\A k \in Keys : entries[k] # NoEntry => k \in CacheKeys)
  /\ [][now' # now => (CacheKeys' = CacheKeys /\ Size' = Size)]_vars
  /\ [][Clear => (Size' = 0 /\ CacheKeys' = {})]_vars
  /\ [][\A k \in Keys : Delete(k) =>
           /\ k \notin CacheKeys'
           /\ Size' = Cardinality(CacheKeys \ {k})
           /\ \A j \in Keys \ {k} : entries'[j] = entries[j]]_vars

\* Both keys are in the map, one of them expired and neither swept nor read,
\* and Size counts both.
C27_Witness ==
  /\ Size = 2
  /\ CacheKeys = Keys
  /\ \E k \in Keys : IsExpired(entries[k], now)
  /\ \E k \in Keys : ~IsExpired(entries[k], now)

\* C28: SetWithTTL(k, v, ttl) leaves under k the value v expiring ttl after
\* the call, and Set(k, v) the value v expiring the default TTL after the
\* call, whatever entry k held before, fresh or expired; every other key
\* keeps its entry.
C28_SetReplaces ==
  /\ [][\A k \in Keys, v \in Vals, ttl \in TTLs :
          SetWithTTL(k, v, ttl) =>
            /\ entries'[k] = [val |-> v, exp |-> now + ttl]
            /\ \A j \in Keys \ {k} : entries'[j] = entries[j]]_vars
  /\ [][\A k \in Keys, v \in Vals :
          Set(k, v) =>
            /\ entries'[k] = [val |-> v, exp |-> now + defaultTTL]
            /\ \A j \in Keys \ {k} : entries'[j] = entries[j]]_vars

\* A Get in flight had read a fresh entry of its key, and a later Set has
\* put another value with another expiry under that key.
C28_Witness ==
  /\ nsets = 2
  /\ gpc = "check"
  /\ gentry # NoEntry
  /\ ~IsExpired(gentry, now)
  /\ entries[gkey] # NoEntry
  /\ entries[gkey].val # gentry.val
  /\ entries[gkey].exp = now + defaultTTL
  /\ entries[gkey].exp # gentry.exp
  /\ \A j \in Keys \ {gkey} : entries[j] = NoEntry

\* C29: Wait returns nil only in the step in which that caller's own
\* TryAcquire is granted, which takes exactly one token out of the refilled
\* bucket; a TryAcquire of Wait that is refused takes nothing; Wait returns
\* the context error only out of its select, in a step that leaves the bucket
\* alone.  No step lets two callers return, and the tokens handed to
\* returned waiters plus those left never exceed the capacity plus what was
\* refilled, so no token is granted twice.
C29_WaitGrant ==
  /\ [][\A c \in Callers :
          /\ (wpc[c] # "done" /\ wpc'[c] = "done" /\ wres'[c] = "nil") =>
                /\ wpc[c] = "try"
                /\ evt' = [op |-> "TryAcquire", ret |-> TRUE]
                /\ refillTokens(tokens) >= TokenUnit
                /\ tokens' = refillTokens(tokens) - TokenUnit
                /\ \A d \in Callers \ {c} : wpc'[d] = wpc[d] /\ wres'[d] = wres[d]
          /\ (wpc[c] = "try" /\ wpc'[c] # "try" /\ wpc'[c] # "done") =>
                /\ evt' = [op |-> "TryAcquire", ret |-> FALSE]
                /\ tokens' = refillTokens(tokens)
                /\ wres'[c] = wres[c]
          /\ (wpc[c] # "done" /\ wpc'[c] = "done" /\ wres'[c] # "nil") =>
                /\ wres'[c] = "ctxErr"
                /\ wpc[c] = "select" /\ wsel[c] = "ctx"
                /\ cancelled[c]
                /\ tokens' = tokens
                /\ evt'.op # "TryAcquire"]_vars
  /\ [](\A c \in Callers : wpc[c] = "done" <=> wres[c] \in {"nil", "ctxErr"})
  /\ [](tokens + TokenUnit * Cardinality({c \in Callers : wres[c] = "nil"})
          <= bucketSize + lastUpdate * rate)

\* Two waiters on a bucket of one token: the token went to one of them,
\* and the other, cancelled in its select, returned the context error with
\* the bucket still short of a token.
C29_Witness ==
  /\ bucketSize = TokenUnit
  /\ \E c \in Callers, d \in Callers :
       /\ wres[c] = "nil"
       /\ wres[d] = "ctxErr"
  /\ now = 0
  /\ tokens = 0

\* ------------------------------------------------- Wait of a single caller

\* One goroutine, c1, calls Wait once; before that call the bucket may be
\* drawn on by direct TryAcquire calls.  Wait is called while the clock can
\* still run for the time one whole token takes to accrue at the lowest rate.
InitWait == InitLimiter

\* Time passes while c1 is outside Wait or in its select: the straight-line
\* code from TryAcquire to the select takes less than one unit of the clock.
WaitClock ==
  /\ wpc["c1"] \notin {"try", "compute"}
  /\ Tick

NextWait ==
  \/ (wpc["c1"] = "idle" /\ TryAcquireCall)
  \/ (now + TokenUnit <= MaxTime /\ WaitCall("c1"))
  \/ WaitTry("c1")
  \/ WaitSelect("c1")
  \/ WaitTimerFire("c1")
  \/ WaitResume("c1")
  \/ Cancel("c1")
  \/ WaitClock

\* The goroutine in Wait is scheduled and timers fire; time passes, also
\* under a caller that goes round the loop with a wait time of zero; nothing
\* obliges anyone to cancel the context.
FairWait ==
  /\ WF_vars(WaitTry("c1"))
  /\ WF_vars(WaitSelect("c1"))
  /\ WF_vars(WaitTimerFire("c1"))
  /\ WF_vars(WaitResume("c1"))
  /\ SF_vars(WaitClock)

SpecWait == InitWait /\ [][NextWait]_vars /\ FairWait

C31_MinimalSleep ==
  /\ [][(wpc["c1"] = "select" /\ wsel["c1"] = "timer" /\ wpc'["c1"] = "try") =>
          TryAcquireGrant(refillTokens(tokens))]_vars
  /\ [][(wpc["c1"] = "compute" /\ wpc'["c1"] = "select" /\ wtimer'["c1"] > now) =>
          tokens + (wtimer'["c1"] - now - 1) * rate < TokenUnit]_vars

\* C32: once Wait has returned the context error, the timer its select
\* created with time.After is no longer pending: its firing instant is not
\* in the future.
C32_NoPendingTimer ==
  \A c \in Callers :
    (wpc[c] = "done" /\ wres[c] = "ctxErr") => wtimer[c] <= now

\* ------------------------------------------------------ closing the cache

\* A cache in use while it is closed, once or again: one key is read and
\* deleted, both are set.
InitClose == InitCache

NextClose ==
  \/ GetRead("categories")
  \/ GetCheck
  \/ GetDelete
  \/ \E k \in Keys : Set(k, "v1")
  \/ Delete("categories")
  \/ CleanupTick
  \/ CleanupSweep
  \/ CleanupStop
  \/ Close
  \/ CloseAgain
  \/ Tick

\* The cleanup goroutine and the caller of Get are scheduled; a select with
\* both of its cases ready picks either, so stopCleanup is not passed over
\* for ever.
FairClose ==
  /\ WF_vars(CleanupSweep)
  /\ SF_vars(CleanupStop)
  /\ WF_vars(GetCheck)
  /\ WF_vars(GetDelete)

SpecClose == InitClose /\ [][NextClose]_vars /\ FairClose

\* C33: after the first Close the cleanup goroutine eventually returns; Get,
\* Set and Delete on a closed cache do what they do on an open one (a Get in
\* flight returns, a fresh entry as a hit and an expired one as not found,
\* Set stores with the default TTL, Delete removes the key); Close on a
\* closed cache panics, and nothing else does.
C33_SingleShutdown ==
  /\ closed ~> (spc = "stopped")
  /\ (closed /\ gpc # "idle") ~> (gpc = "done")
  /\ [][closed =>
          /\ (gpc = "check" /\ gpc' = "done") =>
                (~IsExpired(gentry, now) /\ gret' = [val |-> gentry.val, found |-> TRUE])
          /\ (gpc = "check" /\ gpc' = "delete") => IsExpired(gentry, now)
          /\ (gpc = "delete" /\ gpc' = "done") =>
                (gret' = NotFound /\ entries'[gkey] = NoEntry)
          /\ \A k \in Keys, v \in Vals :
                Set(k, v) => entries'[k] = [val |-> v, exp |-> now + defaultTTL]
          /\ \A k \in Keys : Delete(k) => entries'[k] = NoEntry]_vars
  /\ [][CloseAgain => (closed /\ closePanic')]_vars
  /\ [](closePanic => closed)
  /\ [][closePanic' # closePanic => closed]_vars

\* The cache was closed with a Get in flight; the goroutine has returned,
\* the Get came back with a hit, a Set after the Close has stored its entry
\* and a second Close has panicked.
C33_Witness ==
  /\ closed
  /\ spc = "stopped"
  /\ closePanic
  /\ gpc = "done" /\ gret.found
  /\ \E k \in Keys : entries[k] # NoEntry /\ entries[k].exp = now + defaultTTL
  /\ nsets = 2

\* ---------------------------------------------------- building the cache

\* NewCache with any positive TTL, as NewClient calls it for CacheTTL > 0;
\* the cleanup goroutine has been started and has not run yet.
InitNewCache ==
  /\ CallersIdle
  /\ LimiterUnset
  /\ RetryUnset
  /\ withResult = FALSE
  /\ RetryIdle
  /\ DispatchUnset
  /\ defaultTTL \in 1..(MaxTTL + 1)
  /\ entries = [k \in Keys |-> NoEntry]
  /\ nsets = 0
  /\ closed = FALSE
  /\ tickPending = FALSE
  /\ spc = "start"
  /\ sweepNow = 0
  /\ GetIdle
  /\ GosIdle
  /\ CatIdle
  /\ ErrIdle
  /\ DelayIdle
  /\ CloseIdle
  /\ AccIdle
  /\ AuthIdle

\* The goroutine creates its ticker before the clock moves on.
NextNewCache ==
  \/ CleanupStart
  \/ \E k \in Keys, v \in Vals : Set(k, v)
  \/ \E k \in Keys : Delete(k)
  \/ CleanupTick
  \/ CleanupSweep
  \/ CleanupStop
  \/ Close
  \/ (spc # "start" /\ Tick)

SpecNewCache == InitNewCache /\ [][NextNewCache]_vars

\* C34: for every TTL a cache is built with, the sweep period is strictly
\* positive and the cleanup goroutine gets past the creation of its ticker.
C34_SweepPeriodPositive ==
  (defaultTTL > 0 /\ spc # "start") => (cleanupInterval > 0 /\ spc # "panic")

\* ------------------------------------------------- Retryer claims, policy

\* C35: with no ShouldRetry predicate, no failure ends Do early, whatever the
\* error: a Do that has returned under a context that was not cancelled, with
\* every invocation failed, has invoked the operation MaxRetries + 1 times,
\* slept between any two invocations and returned the last error.
C35_NilPredicateRetriesAll ==
  (/\ cfgIn.ShouldRetry = "nil"
   /\ rpc = "done"
   /\ ~cancelled["c1"]
   /\ \A i \in 1..Len(outcomes) : outcomes[i] # "nil") =>
     /\ Len(outcomes) = config.MaxRetries + 1
     /\ sleeps = config.MaxRetries
     /\ rres = OpErr(LastOutcome, Len(outcomes))

\* Without a predicate an operation failed three times with an error that
\* IsRetryable would not retry, and Do gave up only then.
C35_Witness ==
  /\ cfgIn.ShouldRetry = "nil"
  /\ cfgIn.MaxRetries = 2
  /\ rpc = "done"
  /\ ~cancelled["c1"]
  /\ outcomes = <<"other", "other", "other">>
  /\ ~IsRetryable(ErrOf("other"))
  /\ rres = OpErr("other", 3)

\* ------------------------------------------------ the sub-client accessors

InitAccessors ==
  /\ CallersIdle
  /\ LimiterUnset
  /\ RetryUnset
  /\ withResult = FALSE
  /\ RetryIdle
  /\ DispatchUnset
  /\ CacheUnset
  /\ GetIdle
  /\ GosIdle
  /\ CatIdle
  /\ ErrIdle
  /\ DelayIdle
  /\ CloseIdle
  /\ AccIdle
  /\ AuthIdle

NextAccessors ==
  \/ \E c \in Callers, a \in Accessors : AccCall(c, a)
  \/ \E c \in Callers : AccLock(c)
  \/ \E c \in Callers : AccCheck(c)
  \/ \E c \in Callers : AccCreate(c)

SpecAccessors == InitAccessors /\ [][NextAccessors]_vars

\* C36: each accessor creates its sub-client at most once: all the calls of
\* one accessor have returned the same instance, the one in the Client's
\* field; instances of different accessors differ; a field that is set is
\* never set again.
C36_OneInstance ==
  /\ [](\A a \in Accessors :
          /\ Cardinality(returned[a]) <= 1
          /\ returned[a] \subseteq {subClient[a]} \ {0})
  /\ [](created = Cardinality({a \in Accessors : subClient[a] # 0}))
  /\ [](\A a \in Accessors, b \in Accessors :
          (a # b /\ subClient[a] # 0) => subClient[a] # subClient[b])
  /\ [][\A a \in Accessors : subClient[a] # 0 => subClient'[a] = subClient[a]]_vars

\* Both callers called Search, three calls in all, and each was handed the
\* one instance that was created.
C36_Witness ==
  /\ ncalls = 3
  /\ created = 1
  /\ \A c \in Callers : apc[c] = "done" /\ aacc[c] = "Search" /\ aret[c] = 1
  /\ returned["Search"] = {1}

\* ------------------------------------------- dispatcher claims, admission

\* C37: a call through the dispatcher goes to the limiter only before its
\* first invocation of the operation; it is granted one token, once, and
\* from then on no step of the call, attempt or backoff, reads or changes
\* the bucket, while the operation is invoked up to MaxRetries + 1 times.
C37_OneTokenPerCall ==
  /\ [][(evt'.op = "TryAcquire" /\ wpc'["c1"] # wpc["c1"]) =>
          /\ dpc = "wait" /\ rpc = "idle" /\ outcomes = <<>>
          /\ evt'.ret = TRUE =>
                /\ wpc'["c1"] = "done" /\ wres'["c1"] = "nil"
                /\ tokens' = refillTokens(tokens) - TokenUnit]_vars
  /\ [][wpc["c1"] = "done" => wpc'["c1"] = "done"]_vars
  /\ [][(outcomes' # outcomes \/ rpc' # rpc \/ rsel' # rsel \/ dpc' # dpc) =>
          UNCHANGED <<tokens, lastUpdate, grantsNow>>]_vars
  /\ [](outcomes # <<>> =>
          /\ hasLimiter => (wpc["c1"] = "done" /\ wres["c1"] = "nil")
          /\ Len(outcomes) <= (IF hasRetryer THEN config.MaxRetries + 1 ELSE 1))

\* A call was granted the only token taken at this instant and the
\* operation has been invoked MaxRetries + 1 = 3 times on it.
C37_Witness ==
  /\ hasLimiter /\ hasRetryer
  /\ dpc = "done"
  /\ config.MaxRetries = 2
  /\ Len(outcomes) = 3
  /\ now = 0
  /\ grantsNow = 1
  /\ tokens = bucketSize - TokenUnit

\* ------------------------------------------- Retryer claims, the schedule

\* C38: in one Do call the operation is invoked at most MaxRetries + 1
\* times; the k-th invocation comes after exactly k - 1 sleeps; a sleep is
\* entered only straight after an invocation that failed with an error the
\* policy retries and that was not the last attempt; so a Do that returned
\* anything but the context error slept once less than it invoked.
C38_SleepsBetweenAttempts ==
  /\ [](Len(outcomes) <= config.MaxRetries + 1)
  /\ [][outcomes' # outcomes =>
          /\ Len(outcomes') = Len(outcomes) + 1
          /\ sleeps = Len(outcomes)
          /\ attempt = Len(outcomes)]_vars
  /\ [][sleeps' # sleeps =>
          /\ sleeps' = sleeps + 1
          /\ Len(outcomes') = Len(outcomes) + 1
          /\ outcomes'[Len(outcomes')] # "nil"
          /\ ~DoStops(config, outcomes'[Len(outcomes')])
          /\ attempt < config.MaxRetries]_vars
  /\ []((rpc = "done" /\ rres # CtxErr) => sleeps = Len(outcomes) - 1)

\* Do has returned the last error after three failures with two sleeps
\* between them and none after the third.
C38_Witness ==
  /\ rpc = "done"
  /\ config.MaxRetries = 2
  /\ outcomes = <<"NetworkError", "NetworkError", "NetworkError">>
  /\ sleeps = 2
  /\ rres = OpErr("NetworkError", 3)

\* ------------------------------------------------ backoff over many attempts

\* Configurations in range, with multipliers up to one that takes the
\* product past the largest float within the attempts checked.
BackoffConfigsIn ==
  [MaxRetries : {1},
   BaseDelay : {1, 3},
   MaxDelay : {4, 10},
   Multiplier : {FDen, 2 * FDen, 100 * FDen},
   Jitter : {0, FDen \div 5, FDen},
   ShouldRetry : {"nil"}]

InitBackoff ==
  /\ CallersIdle
  /\ LimiterUnset
  /\ cfgIn \in BackoffConfigsIn
  /\ config = NewRetryer(cfgIn)
  /\ withResult = FALSE
  /\ RetryIdle
  /\ DispatchUnset
  /\ CacheUnset
  /\ GetIdle
  /\ GosIdle
  /\ CatIdle
  /\ ErrIdle
  /\ DelayIdle
  /\ CloseIdle
  /\ AccIdle
  /\ AuthIdle

NextBackoff == \E a \in 0..MaxAttempt, rnd \in RandDraws : calculateDelayCall(a, rnd)

SpecBackoff == InitBackoff /\ [][NextBackoff]_vars

\* C39: every delay calculateDelay returns lies between 0 and MaxDelay, for
\* every attempt and every draw.
C39_DelayWithinCap ==
  dOut # <<>> => (0 <= dOut[1] /\ dOut[1] <= config.MaxDelay)

\* ------------------------------------- the authenticated sub-clients' calls

\* The user authentication in the Config: each field unset and set.
UserAuths == [UserID : {-1, 0, 1}, Token : {"", "token"}]

InitAuth ==
  /\ CallersIdle
  /\ clientCfg \in {DefaultConfig(1), WithRetry(DefaultConfig(1), 1, 1)}
  /\ hasLimiter = ClientHasLimiter(clientCfg)
  /\ hasRetryer = ClientHasRetryer(clientCfg)
  /\ LET l == NewRateLimiter(clientCfg.RateLimit)
     IN /\ rate = l.rate
        /\ bucketSize = l.bucketSize
        /\ tokens = l.tokens
        /\ lastUpdate = l.lastUpdate
  /\ IF hasRetryer
       THEN /\ cfgIn = ClientRetryConfig(clientCfg)
            /\ config = NewRetryer(cfgIn)
       ELSE RetryUnset
  /\ withResult \in BOOLEAN
  /\ RetryIdle
  /\ dpc = "idle"
  /\ dres = NilErr
  /\ CacheUnset
  /\ GetIdle
  /\ GosIdle
  /\ CatIdle
  /\ ErrIdle
  /\ DelayIdle
  /\ CloseIdle
  /\ AccIdle
  /\ userAuth \in UserAuths
  /\ upc = "idle"
  /\ ures = NilErr

NextAuth ==
  \/ AuthOpCall
  \/ (upc = "exec" /\ ExecCall)
  \/ WaitTry("c1")
  \/ WaitSelect("c1")
  \/ WaitTimerFire("c1")
  \/ WaitResume("c1")
  \/ ExecAfterWait
  \/ ExecAdmitted
  \/ DoAttempt
  \/ DoTimerFire
  \/ DoResume
  \/ ExecReturn
  \/ AuthOpReturn
  \/ OtherAdmission
  \/ Cancel("c1")
  \/ Tick

SpecAuth == InitAuth /\ [][NextAuth]_vars

\* C40: with UserID <= 0 or an empty Token, an operation of the Restricted,
\* Order or Buyer client returns ErrAuthRequired before the middleware: Wait
\* is never called for it and the remote operation is never invoked.  With
\* both set it returns what the dispatcher returns.
C40_AuthBeforeMiddleware ==
  /\ ((userAuth.UserID <= 0 \/ userAuth.Token = "") /\ upc # "idle") =>
        /\ upc = "done"
        /\ ures = ErrAuthRequired
        /\ dpc = "idle"
        /\ wpc["c1"] = "idle"
        /\ rpc = "idle"
        /\ outcomes = <<>>
  /\ (userAuth.UserID > 0 /\ userAuth.Token # "" /\ upc = "done") =>
        (dpc = "done" /\ ures = dres /\ ures # ErrAuthRequired)

\* A call with a user id and no token has returned ErrAuthRequired, while
\* another caller took the limiter's token.
C40_Witness ==
  /\ userAuth = [UserID |-> 1, Token |-> ""]
  /\ upc = "done"
  /\ ures = ErrAuthRequired
  /\ grantsNow = 1
  /\ outcomes = <<>>

=============================================================================
